---- MODULE Spec2Model ----
(***************************************************************************)
(* A model of the obsidian-mindmap plugin core: the outline parser and     *)
(* serializer (markdown-parser.ts), the horizontal tree layout, and the    *)
(* mutation / history engine of MindmapView and MindmapCanvas.             *)
(*                                                                         *)
(* Node objects live in a heap (a sequence of records, a reference is an   *)
(* index, 0 is null/undefined) because the program relies on object        *)
(* identity: parent back-references, snapshots that become the live tree   *)
(* on undo, and timer closures that keep references to nodes.              *)
(* Text is a sequence of one-character strings.                            *)
(***************************************************************************)
EXTENDS Integers, Sequences, FiniteSets, TLC

VARIABLES
    heap,            \* all MindmapNodeData objects ever allocated
    mindmapData,     \* MindmapView.mindmapData / MindmapCanvas.mindmapData (0 = null)
    history,         \* MindmapView.history: sequence of references to snapshot roots
    historyIndex,    \* MindmapView.historyIndex
    selectedNodeId,  \* MindmapCanvas.selectedNodeId (Null = null)
    isDragging,      \* MindmapCanvas.isDragging
    dragOverNode,    \* MindmapCanvas.dragOverNode (0 = null)
    dragOverTimeout, \* MindmapCanvas.dragOverTimeout: <<>> = null, else <<[child, target]>>
    now,             \* the millisecond clock read by Date.now()
    content,         \* the text handed to parseMarkdown
    output,          \* the last result of generateMarkdown
    reparsed,        \* root of parseMarkdown(output) (0 = none)
    pc,              \* position of the parse / serialize / layout pipeline
    lastOp,          \* the handler that ran last, with its arguments and outcome
    steps,           \* number of handlers run so far
    undone,          \* number of undo calls that replaced the live tree
    saveTimers,      \* the pending timers of autoSaveDebounced: set of [id, due]
    timeout,         \* the variable timeout of debounce: the last timer id (0 = undefined)
    saves,           \* number of calls of saveToFile made by the auto-save
    currentFile,     \* MindmapView.currentFile ("" = null)
    vault,           \* the content of each file of the vault
    reading,         \* the files whose loadFile awaits this.app.vault.read
    origin,          \* for the root of each tree, the file it was loaded from
    nodeInput,       \* the input of startEditing: <<>> = none, else <<[node, value]>>
    hoverTimers      \* the pending timers of checkNodeOverlap: set of [child, target]

vars == <<heap, mindmapData, history, historyIndex, selectedNodeId, isDragging,
          dragOverNode, dragOverTimeout, now, content, output, reparsed, pc, lastOp,
          steps, undone, saveTimers, timeout, saves, currentFile, vault, reading,
          origin, nodeInput, hoverTimers>>

saveVars == <<saveTimers, timeout, saves>>
envVars == <<currentFile, vault, reading>>
otherVars == <<envVars, origin, nodeInput, hoverTimers>>


-----------------------------------------------------------------------------
(* Characters and strings                                                  *)

\* \s of a JavaScript regular expression, restricted to the model's alphabet
WhiteSpace == {" ", "\t", "\r", "\n"}

\* characters '.' does not match
LineTerminators == {"\n", "\r"}

Rest(s, n) == SubSeq(s, n + 1, Len(s))

RECURSIVE LeadingRun(_, _)
LeadingRun(s, cls) ==
    IF s = <<>> \/ s[1] \notin cls THEN 0 ELSE 1 + LeadingRun(Tail(s), cls)

RECURSIVE TrailingRun(_, _)
TrailingRun(s, cls) ==
    IF s = <<>> \/ s[Len(s)] \notin cls THEN 0
    ELSE 1 + TrailingRun(SubSeq(s, 1, Len(s) - 1), cls)

\* String.prototype.trim
trim(s) ==
    LET l == LeadingRun(s, WhiteSpace)
    IN  IF l = Len(s) THEN <<>>
        ELSE SubSeq(s, l + 1, Len(s) - TrailingRun(s, WhiteSpace))

\* index of the first occurrence of c in s at or after position i, 0 when none
RECURSIVE indexOfFrom(_, _, _)
indexOfFrom(s, c, i) ==
    IF i > Len(s) THEN 0
    ELSE IF s[i] = c THEN i
    ELSE indexOfFrom(s, c, i + 1)

\* content.split('\n')
RECURSIVE split(_)
split(s) ==
    LET j == indexOfFrom(s, "\n", 1)
    IN  IF j = 0 THEN <<s>>
        ELSE <<SubSeq(s, 1, j - 1)>> \o split(Rest(s, j))

\* lines.join('\n')
RECURSIVE join(_)
join(ls) ==
    IF ls = <<>> THEN <<>>
    ELSE IF Len(ls) = 1 THEN ls[1]
    ELSE ls[1] \o <<"\n">> \o join(Tail(ls))

\* Math.max
max2(a, b) == IF a >= b THEN a ELSE b

\* '#'.repeat(n), '\t'.repeat(n)
RECURSIVE repeat(_, _)
repeat(c, n) == IF n <= 0 THEN <<>> ELSE <<c>> \o repeat(c, n - 1)

\* The tail "\s+(.+)$" of both line patterns, matched against s: \s+ is greedy
\* and gives back one character only when nothing is left for (.+).
tailMatch(s) ==
    LET w    == LeadingRun(s, WhiteSpace)
        rest == Rest(s, w)
        text == IF rest # <<>> THEN rest
                ELSE IF w >= 2 THEN <<s[w]>> ELSE <<>>
    IN  [matched |-> /\ w >= 1
                     /\ text # <<>>
                     /\ \A i \in 1..Len(text) : text[i] \notin LineTerminators,
         text    |-> text]

\* a header pattern without the upper limit on the number of '#'
headerMatchAnyDepth(trimmedLine) ==
    LET k == LeadingRun(trimmedLine, {"#"})
        t == tailMatch(Rest(trimmedLine, k))
    IN  [matched |-> k >= 1 /\ t.matched,
         hashes  |-> k,
         text    |-> t.text]

\* trimmedLine.match(/^(#{1,6})\s+(.+)$/)
headerMatch(trimmedLine) ==
    LET k == LeadingRun(trimmedLine, {"#"})
        t == tailMatch(Rest(trimmedLine, k))
    IN  [matched |-> k >= 1 /\ k <= 6 /\ t.matched,
         hashes  |-> k,
         text    |-> t.text]

\* line.match(/^(\s*)-\s+(.+)$/)
listMatch(line) ==
    LET ind      == LeadingRun(line, WhiteSpace)
        afterInd == Rest(line, ind)
        dash     == afterInd # <<>> /\ afterInd[1] = "-"
        t        == tailMatch(Rest(afterInd, 1))
    IN  [matched |-> dash /\ t.matched,
         indent  |-> SubSeq(line, 1, ind),
         text    |-> t.text]

\* an indent width that counts a tab as one column
RECURSIVE indentLengthTabOne(_)
indentLengthTabOne(indent) ==
    IF indent = <<>> THEN 0 ELSE 1 + indentLengthTabOne(Tail(indent))

\* indent.replace(/\t/g, '    ').length
RECURSIVE indentLength(_)
indentLength(indent) ==
    IF indent = <<>> THEN 0
    ELSE (IF indent[1] = "\t" THEN 4 ELSE 1) + indentLength(Tail(indent))

\* match[1].split('|')[0].trim()
linkTarget(inner) ==
    LET bar == indexOfFrom(inner, "|", 1)
    IN  trim(IF bar = 0 THEN inner ELSE SubSeq(inner, 1, bar - 1))

\* the successive matches of /\[\[([^\]]+)\]\]/g in text, from position i
RECURSIVE wikilinkScan(_, _)
wikilinkScan(text, i) ==
    IF i + 1 > Len(text) THEN <<>>
    ELSE IF text[i] = "[" /\ text[i + 1] = "["
    THEN LET j == indexOfFrom(text, "]", i + 2)
         IN  IF j > i + 2 /\ j + 1 <= Len(text) /\ text[j + 1] = "]"
             THEN <<linkTarget(SubSeq(text, i + 2, j - 1))>> \o wikilinkScan(text, j + 2)
             ELSE wikilinkScan(text, i + 1)
    ELSE wikilinkScan(text, i + 1)

extractWikilinks(text) ==
    [cleanText |-> text, wikilinks |-> wikilinkScan(text, 1)]

-----------------------------------------------------------------------------
(* MindmapNodeData objects                                                 *)

RootId == <<"root", 0>>          \* id: 'root'
CenterId == <<"node-center", 0>> \* id: 'node-center'
nodeId(n) == <<"node", n>>       \* id: `node-${n}`

Placeholder == <<"N", "e", "w">>  \* the text of a freshly added node
RootText == <<"R">>              \* the text of the synthetic root

NoPos == <<>>                    \* x and y undefined

\* the object literal of parseMarkdown / loadFile for the synthetic root
rootLiteral ==
    [id |-> RootId, text |-> RootText, level |-> 0, type |-> "header",
     children |-> <<>>, parent |-> 0, pos |-> NoPos, lineNumber |-> -1,
     originalText |-> <<>>, hasWikilink |-> FALSE, wikilinks |-> <<>>,
     color |-> "undefined", collapsed |-> "undefined"]

\* a JavaScript value used as a condition
truthy(v) == v = "true"

\* the object literal parseLine returns for a header line
headerNode(line, lineNumber, id, level, w) ==
    [id |-> nodeId(id), text |-> w.cleanText, level |-> level,
     type |-> "header", children |-> <<>>, parent |-> 0,
     pos |-> NoPos, lineNumber |-> lineNumber,
     originalText |-> line,
     hasWikilink |-> Len(w.wikilinks) > 0,
     wikilinks |-> w.wikilinks,
     color |-> IF level = 1 THEN "red" ELSE "default",
     collapsed |-> "undefined"]

\* the object literal parseLine returns for a list line
listNode(line, lineNumber, id, indentLevel, w) ==
    [id |-> nodeId(id), text |-> w.cleanText,
     level |-> indentLevel + 6,
     type |-> "list", children |-> <<>>, parent |-> 0,
     pos |-> NoPos, lineNumber |-> lineNumber,
     originalText |-> line,
     hasWikilink |-> Len(w.wikilinks) > 0,
     wikilinks |-> w.wikilinks,
     color |-> "undefined",
     collapsed |-> "undefined"]

\* the body of parseLine, given the results hm and lm of its two matches
parseLineMatched(line, lineNumber, id, hm, lm) ==
    IF hm.matched
    THEN <<headerNode(line, lineNumber, id, hm.hashes, extractWikilinks(hm.text))>>
    ELSE IF lm.matched
    THEN <<listNode(line, lineNumber, id, (indentLength(lm.indent) \div 4) + 1,
                    extractWikilinks(lm.text))>>
    ELSE <<>>

\* MarkdownParser.parseLine: <<>> is null, <<node>> a node (parent not yet set)
parseLine(line, lineNumber, id) ==
    parseLineMatched(line, lineNumber, id, headerMatch(trim(line)), listMatch(line))

\* MarkdownParser.findParentNode: scan the stack from the top downward
RECURSIVE findParentFrom(_, _, _, _)
findParentFrom(h, nodeStack, level, i) ==
    IF i < 1 THEN nodeStack[1]
    ELSE IF h[nodeStack[i]].level < level THEN nodeStack[i]
    ELSE findParentFrom(h, nodeStack, level, i - 1)

\* a findParentNode that takes the node of the line before: the top of the stack
findParentOnTop(h, nodeStack, currentNode) == nodeStack[Len(nodeStack)]

findParentNode(h, nodeStack, currentNode) ==
    findParentFrom(h, nodeStack, currentNode.level, Len(nodeStack))

\* MarkdownParser.updateNodeStack: pop every entry with level >= the new
\* node's level, then push the new node
RECURSIVE popStack(_, _, _)
popStack(h, nodeStack, level) ==
    IF Len(nodeStack) > 0 /\ h[nodeStack[Len(nodeStack)]].level >= level
    THEN popStack(h, SubSeq(nodeStack, 1, Len(nodeStack) - 1), level)
    ELSE nodeStack

updateNodeStack(h, nodeStack, ref) ==
    Append(popStack(h, nodeStack, h[ref].level), ref)

\* node.parent = parentNode; parentNode.children.push(node): the new object is
\* the last of the heap
attachNode(h, node, parentNode) ==
    [Append(h, [node EXCEPT !.parent = parentNode])
        EXCEPT ![parentNode].children = Append(@, Len(h) + 1)]

\* the for loop of parseMarkdown; i is the 1-based index of lines[i - 1]
RECURSIVE parseLines(_, _, _, _, _)
RECURSIVE parseParsed(_, _, _, _, _, _)
RECURSIVE parseAttached(_, _, _, _, _)

\* the rest of the loop once the node is attached (h2 holds it as its last object)
parseAttached(h2, lines, i, nodeStack, currentId) ==
    parseLines(h2, lines, i + 1, updateNodeStack(h2, nodeStack, Len(h2)), currentId + 1)

\* the loop body after parseLine returned parsed
parseParsed(h, lines, i, nodeStack, currentId, parsed) ==
    IF parsed = <<>>
    THEN parseLines(h, lines, i + 1, nodeStack, currentId + 1)
    ELSE parseAttached(attachNode(h, parsed[1], findParentNode(h, nodeStack, parsed[1])),
                       lines, i, nodeStack, currentId)

parseLines(h, lines, i, nodeStack, currentId) ==
    IF i > Len(lines) THEN h
    ELSE IF trim(lines[i]) = <<>>
    THEN parseLines(h, lines, i + 1, nodeStack, currentId)
    ELSE parseParsed(h, lines, i, nodeStack, currentId,
                     parseLine(lines[i], i - 1, currentId))

\* MarkdownParser.parseMarkdown: the new objects are appended to heap h
parseMarkdown(h, text) ==
    [heap |-> parseLines(Append(h, rootLiteral), split(text), 1, <<Len(h) + 1>>, 1),
     root |-> Len(h) + 1]

\* MarkdownParser.restoreWikilinks
restoreWikilinks(text, wikilinks) == text

\* `this` inside the nested `function traverse` of generateMarkdown: a plain
\* function called as traverse(node) in strict (class) code
thisOfTraverse == "undefined"

\* the text of a node's line: <<>> stands for the TypeError of reading a
\* property of undefined
lineText(node) ==
    IF node.hasWikilink /\ Len(node.wikilinks) > 0
    THEN IF thisOfTraverse = "undefined" THEN <<>>
         ELSE <<restoreWikilinks(node.text, node.wikilinks)>>
    ELSE <<node.text>>

\* the line traverse pushes for node, whose text is t (<<>>: the TypeError)
pushLine(node, t, acc) ==
    IF node.id = RootId THEN acc
    ELSE IF node.type = "header"
    THEN IF t = <<>> THEN [acc EXCEPT !.threw = TRUE]
         ELSE [acc EXCEPT !.lines =
                  Append(@, repeat("#", node.level) \o <<" ">> \o t[1])]
    ELSE IF node.type = "list"
    THEN IF t = <<>> THEN [acc EXCEPT !.threw = TRUE]
         ELSE [acc EXCEPT !.lines =
                  Append(@, repeat("\t", max2(0, node.level - 7))
                            \o <<"-", " ">> \o t[1])]
    ELSE acc

\* a traverse that, like renderNode, does not descend into a collapsed node
RECURSIVE traverseVisible(_, _, _)
traverseVisible(h, refs, acc) ==
    IF refs = <<>> \/ acc.threw THEN acc
    ELSE traverseVisible(h, Tail(refs),
             traverseVisible(h, IF truthy(h[refs[1]].collapsed) THEN <<>>
                                ELSE h[refs[1]].children,
                             pushLine(h[refs[1]], lineText(h[refs[1]]), acc)))

\* function traverse of generateMarkdown, applied to the nodes of refs in
\* order; acc is the record [threw, lines] built so far
RECURSIVE traverse(_, _, _)
traverse(h, refs, acc) ==
    IF refs = <<>> \/ acc.threw THEN acc
    ELSE traverse(h, Tail(refs),
                  traverse(h, h[refs[1]].children,
                           pushLine(h[refs[1]], lineText(h[refs[1]]), acc)))

\* MarkdownParser.generateMarkdown: [threw, text]
generated(r) == [threw |-> r.threw, text |-> IF r.threw THEN <<>> ELSE join(r.lines)]

generateMarkdown(h, rootNode) ==
    generated(traverse(h, <<rootNode>>, [threw |-> FALSE, lines |-> <<>>]))

-----------------------------------------------------------------------------
(* Layout                                                                  *)

RECURSIVE sumSeq(_)
sumSeq(s) == IF s = <<>> THEN 0 ELSE s[1] + sumSeq(Tail(s))

\* MarkdownParser.calculateSubtreeHeight
RECURSIVE calculateSubtreeHeight(_, _, _)
calculateSubtreeHeight(h, node, level) ==
    IF Len(h[node].children) = 0 \/ truthy(h[node].collapsed)
    THEN max2(100 - (level * 10), 60)
    ELSE LET childHeights ==
                 [i \in 1..Len(h[node].children) |->
                     calculateSubtreeHeight(h, h[node].children[i], level + 1)]
             totalChildHeight == sumSeq(childHeights)
         IN  max2(totalChildHeight, max2(100 - (level * 10), 60))

\* MarkdownParser.arrangeHorizontalSubtree; the forEach over the children is
\* arrangeChildren, index counting from 1
RECURSIVE arrangeHorizontalSubtree(_, _, _, _)
RECURSIVE arrangeWithHeights(_, _, _, _, _)
RECURSIVE arrangeChildren(_, _, _, _, _, _, _, _)
arrangeChildren(h, children, childHeights, index, baseX, currentY, direction, level) ==
    IF index > Len(children) THEN h
    ELSE LET child == children[index]
             childHeight == childHeights[index]
             h1 == [h EXCEPT ![child].pos = <<baseX, currentY + (childHeight \div 2)>>]
             h2 == arrangeHorizontalSubtree(h1, child, direction, level + 1)
         IN  arrangeChildren(h2, children, childHeights, index + 1, baseX,
                             currentY + childHeight, direction, level)

\* the body of arrangeHorizontalSubtree once childHeights is computed
arrangeWithHeights(h, parentNode, direction, level, childHeights) ==
    LET baseHorizontalSpacing == 220
        horizontalSpacing == max2(baseHorizontalSpacing - (level * 20), 150)
        directionMultiplier == IF direction = "right" THEN 1 ELSE -1
        baseX == h[parentNode].pos[1] + (directionMultiplier * horizontalSpacing)
        totalRequiredHeight == sumSeq(childHeights)
        currentY == h[parentNode].pos[2] - (totalRequiredHeight \div 2)
    IN  arrangeChildren(h, h[parentNode].children, childHeights, 1, baseX, currentY,
                        direction, level)

arrangeHorizontalSubtree(h, parentNode, direction, level) ==
    IF Len(h[parentNode].children) = 0 THEN h
    ELSE arrangeWithHeights(h, parentNode, direction, level,
             [i \in 1..Len(h[parentNode].children) |->
                 calculateSubtreeHeight(h, h[parentNode].children[i], level + 1)])

\* one of the two for loops of arrangeHorizontalTree: branches first+1 ..
\* first+count of mainBranches, i counting from 0
RECURSIVE arrangeSide(_, _, _, _, _, _, _, _)
arrangeSide(h, mainBranches, first, count, i, direction, centerX, centerY) ==
    IF i >= count THEN h
    ELSE LET verticalSpacing == 100
             horizontalDistance == 300
             branch == mainBranches[first + i + 1]
             \* (i - (count - 1) / 2) * verticalSpacing
             offsetFromCenter == ((2 * i - (count - 1)) * verticalSpacing) \div 2
             x == IF direction = "right" THEN centerX + horizontalDistance
                  ELSE centerX - horizontalDistance
             h1 == [h EXCEPT ![branch].pos = <<x, centerY + offsetFromCenter>>]
             h2 == arrangeHorizontalSubtree(h1, branch, direction, 0)
         IN  arrangeSide(h2, mainBranches, first, count, i + 1, direction,
                         centerX, centerY)

\* MarkdownParser.arrangeHorizontalTree
arrangeHorizontalTree(h, centerNode, centerX, centerY) ==
    LET mainBranches == h[centerNode].children
        totalBranches == Len(mainBranches)
        rightCount == (totalBranches + 1) \div 2    \* Math.ceil(totalBranches / 2)
        leftCount == totalBranches - rightCount
        h1 == arrangeSide(h, mainBranches, 0, rightCount, 0, "right", centerX, centerY)
    IN  IF totalBranches = 0 THEN h
        ELSE arrangeSide(h1, mainBranches, rightCount, leftCount, 0, "left",
                         centerX, centerY)

\* MarkdownParser.calculateNodePositions
calculateNodePositions(h, rootNode) ==
    LET centerX == 600
        centerY == 400
        centerNode == h[rootNode].children[1]
    IN  IF Len(h[rootNode].children) = 0 THEN h
        ELSE arrangeHorizontalTree([h EXCEPT ![centerNode].pos = <<centerX, centerY>>],
                                   centerNode, centerX, centerY)

-----------------------------------------------------------------------------
(* Tree walks of the view and the canvas                                   *)

NoId == <<>>                      \* selectedNodeId: null

\* position of the first occurrence of ref in list, 0 when absent (indexOf + 1)
RECURSIVE indexOfRef(_, _, _)
indexOfRef(list, ref, i) ==
    IF i > Len(list) THEN 0
    ELSE IF list[i] = ref THEN i
    ELSE indexOfRef(list, ref, i + 1)

\* list.splice(i - 1, 1)
removeAt(list, i) == SubSeq(list, 1, i - 1) \o SubSeq(list, i + 1, Len(list))

\* MindmapView.getAllNodes / MindmapCanvas.getAllNodes: pre-order, the node
\* with id 'root' left out
RECURSIVE collectNodes(_, _)
collectNodes(h, refs) ==
    IF refs = <<>> THEN <<>>
    ELSE (IF h[refs[1]].id # RootId THEN <<refs[1]>> ELSE <<>>)
         \o collectNodes(h, h[refs[1]].children)
         \o collectNodes(h, Tail(refs))

getAllNodes(h, root) == collectNodes(h, <<root>>)

\* MindmapCanvas.findNodeById: depth first, the first match; 0 is null
RECURSIVE findNodeIn(_, _, _)
findNodeIn(h, refs, id) ==
    IF refs = <<>> THEN 0
    ELSE IF h[refs[1]].id = id THEN refs[1]
    ELSE LET found == findNodeIn(h, h[refs[1]].children, id)
         IN  IF found # 0 THEN found ELSE findNodeIn(h, Tail(refs), id)

findNodeById(h, root, id) == findNodeIn(h, <<root>>, id)

\* MindmapCanvas.getSelectedNode
getSelectedNode ==
    IF selectedNodeId = NoId \/ mindmapData = 0 THEN 0
    ELSE findNodeById(heap, mindmapData, selectedNodeId[1])

\* MindmapView.findCenterNode
findCenterNode(h, root) ==
    IF Len(h[root].children) > 0 THEN h[root].children[1] ELSE 0

\* MindmapCanvas.renderNode: the nodes that get an element (and event
\* listeners): every node but the root, the children of a collapsed node skipped
RECURSIVE renderNodes(_, _)
renderNodes(h, refs) ==
    IF refs = <<>> THEN <<>>
    ELSE LET n == refs[1]
         IN  (IF h[n].id = RootId THEN renderNodes(h, h[n].children)
              ELSE <<n>> \o (IF truthy(h[n].collapsed) THEN <<>>
                             ELSE renderNodes(h, h[n].children)))
             \o renderNodes(h, Tail(refs))

Range(s) == {s[i] : i \in 1..Len(s)}

renderedNodes == IF mindmapData = 0 THEN {} ELSE Range(renderNodes(heap, <<mindmapData>>))

\* an isAncestor that looks at the parent of descendant only
isParentOnly(h, ancestor, descendant) == h[descendant].parent = ancestor

\* MindmapCanvas.isAncestor: walk the parent chain of descendant
RECURSIVE isAncestor(_, _, _)
isAncestor(h, ancestor, descendant) ==
    LET current == h[descendant].parent
    IN  IF current = 0 THEN FALSE
        ELSE IF current = ancestor THEN TRUE
        ELSE isAncestor(h, ancestor, current)

\* MindmapCanvas.findNodeAtPosition: the first node of getAllNodes, other than
\* excludeNode, whose 100 x 50 box holds the point; 0 is null
RECURSIVE firstNodeAt(_, _, _, _, _)
firstNodeAt(h, allNodes, x, y, excludeNode) ==
    IF allNodes = <<>> THEN 0
    ELSE LET node == allNodes[1]
             p == h[node].pos
             nodeWidth == 100
             nodeHeight == 50
         IN  IF node = excludeNode \/ p = NoPos \/ p[1] = 0 \/ p[2] = 0
             THEN firstNodeAt(h, Tail(allNodes), x, y, excludeNode)
             ELSE IF /\ x >= p[1] /\ x <= p[1] + nodeWidth
                     /\ y >= p[2] /\ y <= p[2] + nodeHeight
             THEN node
             ELSE firstNodeAt(h, Tail(allNodes), x, y, excludeNode)

findNodeAtPosition(h, root, x, y, excludeNode) ==
    firstNodeAt(h, getAllNodes(h, root), x, y, excludeNode)

-----------------------------------------------------------------------------
(* History                                                                 *)

MaxHistory == 20

\* createCleanCopy of saveToHistory: a deep copy without parent references;
\* [heap, ref] is the heap with the copies appended and the copy of node
RECURSIVE createCleanCopy(_, _)
RECURSIVE copyChildren(_, _, _)
RECURSIVE copiedChild(_, _, _)
copiedChild(c, children, copies) ==
    copyChildren(c.heap, Tail(children), Append(copies, c.ref))

copyChildren(h, children, copies) ==
    IF children = <<>> THEN [heap |-> h, refs |-> copies]
    ELSE copiedChild(createCleanCopy(h, children[1]), children, copies)

\* the copy at ref gets the copies r.refs of the children
withChildren(r, ref) == [heap |-> [r.heap EXCEPT ![ref].children = r.refs], ref |-> ref]

createCleanCopy(h, node) ==
    withChildren(copyChildren(Append(h, [h[node] EXCEPT !.parent = 0, !.children = <<>>]),
                              h[node].children, <<>>),
                 Len(h) + 1)

\* history.push(cleanState), historyIndex++ and the limit of MaxHistory entries
pushState(h, pushed, index) ==
    IF Len(pushed) > MaxHistory
    THEN [heap |-> h, history |-> Tail(pushed), historyIndex |-> (index + 1) - 1]
    ELSE [heap |-> h, history |-> pushed, historyIndex |-> index + 1]

\* a push of cleanState that keeps the entries beyond the cursor
pushWithoutSlice(cleanState, hist, index) ==
    pushState(cleanState.heap, Append(hist, cleanState.ref), index)

\* history.slice(0, historyIndex + 1) and the push of cleanState
sliceAndPush(cleanState, hist, index) ==
    pushState(cleanState.heap, Append(SubSeq(hist, 1, index + 1), cleanState.ref), index)

\* MindmapView.saveToHistory: [heap, history, historyIndex] afterwards
saveToHistory(h, root, hist, index) ==
    IF root = 0 THEN [heap |-> h, history |-> hist, historyIndex |-> index]
    ELSE sliceAndPush(createCleanCopy(h, root), hist, index)

\* MindmapView.restoreNodeReferences
RECURSIVE restoreNodeReferences(_, _)
RECURSIVE restoreChildren(_, _, _, _)
restoreChildren(h, node, children, i) ==
    IF i > Len(children) THEN h
    ELSE restoreChildren(
             restoreNodeReferences([h EXCEPT ![children[i]].parent = node], children[i]),
             node, children, i + 1)

restoreNodeReferences(h, node) == restoreChildren(h, node, h[node].children, 1)

-----------------------------------------------------------------------------
(* Handlers of MindmapView and MindmapCanvas                               *)

Epoch == 1000                    \* Date.now() at start: far above any line count
FileName == <<"f">>              \* file.basename of the loaded file

NoFile == ""                     \* currentFile = null
Files == {"f", "g", "h"}         \* the files of the vault

\* file.basename
basename(file) == <<file>>

op(name, ok, node, target) == [op |-> name, ok |-> ok, node |-> node, target |-> target]

SaveWait == 1000                 \* the wait of autoSaveDebounced, in milliseconds

\* clearTimeout(handle): the timer with that id is no longer pending
clearTimeout(timers, handle) == {t \in timers : t.id # handle}

\* a debounce that starts a timer without cancelling the one before
debounceWithoutClear(timers, handle, time) ==
    [saveTimers |-> timers \cup {[id |-> handle + 1, due |-> time + SaveWait]},
     timeout |-> handle + 1]

\* executedFunction of debounce, called at time: [saveTimers, timeout]
debounce(timers, handle, time) ==
    [saveTimers |-> clearTimeout(timers, handle)
                        \cup {[id |-> handle + 1, due |-> time + SaveWait]},
     timeout |-> handle + 1]

\* this.plugin.settings.autoSave, as DEFAULT_SETTINGS has it
autoSave == TRUE

\* if (this.plugin.settings.autoSave) this.autoSaveDebounced(), at time
AutoSave(time) ==
    IF autoSave
    THEN \E d \in {debounce(saveTimers, timeout, time)} :
             /\ saveTimers' = d.saveTimers
             /\ timeout' = d.timeout
             /\ UNCHANGED saves
    ELSE UNCHANGED saveVars

\* a timer that is due fires before a handler that runs later
notDue(time) == \A t \in saveTimers : time < t.due

\* a new node that takes the type of its parent whatever the level
newNodeOfParentType(h, selectedNode, time) ==
    [id |-> nodeId(time), text |-> Placeholder,
     level |-> h[selectedNode].level + 1,
     type |-> h[selectedNode].type,
     children |-> <<>>, parent |-> selectedNode, pos |-> NoPos, lineNumber |-> -1,
     originalText |-> <<>>, hasWikilink |-> FALSE, wikilinks |-> <<>>,
     color |-> "undefined", collapsed |-> "undefined"]

\* the object literal of addNode / addChildToSelectedNode
newNodeLiteral(h, selectedNode, time) ==
    [id |-> nodeId(time), text |-> Placeholder,
     level |-> h[selectedNode].level + 1,
     type |-> IF h[selectedNode].type = "header" /\ h[selectedNode].level < 6
              THEN "header" ELSE "list",
     children |-> <<>>, parent |-> selectedNode, pos |-> NoPos, lineNumber |-> -1,
     originalText |-> <<>>, hasWikilink |-> FALSE, wikilinks |-> <<>>,
     color |-> "undefined", collapsed |-> "undefined"]

\* the default structure of loadFile: [heap, root]
defaultStructure(h, fileName) ==
    LET root == Len(h) + 1
        center == Len(h) + 2
    IN  [heap |-> h \o <<[rootLiteral EXCEPT !.children = <<center>>],
                         [id |-> CenterId, text |-> fileName, level |-> 1,
                          type |-> "header", children |-> <<>>, parent |-> root,
                          pos |-> NoPos, lineNumber |-> -1, originalText |-> <<>>,
                          hasWikilink |-> FALSE, wikilinks |-> <<>>,
                          color |-> "blue", collapsed |-> "undefined"]>>,
         root |-> root]

\* the data loadFile keeps: the parsed tree, or the default structure when the
\* file is empty or has no node
loadedData(p, text) ==
    IF Len(p.heap[p.root].children) = 0 \/ trim(text) = <<>>
    THEN defaultStructure(p.heap, FileName)
    ELSE p

\* the same for a file of any name
loadedFrom(p, text, fileName) ==
    IF Len(p.heap[p.root].children) = 0 \/ trim(text) = <<>>
    THEN defaultStructure(p.heap, fileName)
    ELSE p

\* this.app.vault.modify(file, markdown) with the result g of generateMarkdown;
\* a TypeError of generateMarkdown leaves the file as it is
modify(files, file, g) ==
    IF g.threw THEN files ELSE [files EXCEPT ![file] = g.text]

\* a loadFile that writes the default structure whenever it uses it
afterLoadWritesDefault(files, file, text, h, root) ==
    IF h[h[root].children[1]].id = CenterId
    THEN modify(files, file, generateMarkdown(h, root))
    ELSE [files EXCEPT ![file] = text]

\* the file after loadFile has read text from it: the default structure is
\* written when the text is blank
afterLoad(files, file, text, h, root) ==
    IF trim(text) = <<>> THEN modify(files, file, generateMarkdown(h, root))
    ELSE [files EXCEPT ![file] = text]

\* loadFile of file after the read has returned text; renderView selects the
\* center node
Loaded(file, text) ==
    /\ \E d \in {loadedFrom(parseMarkdown(heap, text), text, basename(file))} :
       \E h \in {calculateNodePositions(d.heap, d.root)} :
           /\ heap' = h
           /\ mindmapData' = d.root
           /\ selectedNodeId' = IF findCenterNode(h, d.root) # 0
                                THEN <<h[findCenterNode(h, d.root)].id>> ELSE NoId
           /\ lastOp' = op("load", TRUE, d.root, 0)
           /\ vault' = afterLoad(vault, file, text, d.heap, d.root)
           /\ origin' = origin @@ (d.root :> file)
    /\ content' = text
    /\ UNCHANGED <<history, historyIndex, isDragging, dragOverNode, dragOverTimeout,
                   now, output, reparsed, pc, undone, saveVars, nodeInput, hoverTimers>>

\* MindmapView.loadFile of the file "f" that holds text, in a view that has
\* no file yet, with a read that succeeds before any other handler runs
LoadFile(text) ==
    /\ mindmapData = 0
    /\ currentFile = NoFile
    /\ currentFile' = "f"
    /\ Loaded("f", text)
    /\ UNCHANGED reading

\* MindmapView.loadFile of file up to the await of this.app.vault.read
OpenFile(file) ==
    /\ currentFile # file
    /\ currentFile' = file
    /\ reading' = reading \cup {file}
    /\ lastOp' = op("open", TRUE, 0, 0)
    /\ UNCHANGED <<heap, mindmapData, history, historyIndex, selectedNodeId, isDragging,
                   dragOverNode, dragOverTimeout, now, content, output, reparsed, pc,
                   undone, saveVars, vault, origin, nodeInput, hoverTimers>>

\* the read of file returns its content and loadFile goes on to its end
ReadDone(file) ==
    /\ file \in reading
    /\ reading' = reading \ {file}
    /\ Loaded(file, vault[file])
    /\ UNCHANGED currentFile

\* the read of file fails: the catch of loadFile
ReadFailed(file) ==
    /\ file \in reading
    /\ reading' = reading \ {file}
    /\ lastOp' = op("load", FALSE, 0, 0)
    /\ UNCHANGED <<heap, mindmapData, history, historyIndex, selectedNodeId, isDragging,
                   dragOverNode, dragOverTimeout, now, content, output, reparsed, pc,
                   undone, saveVars, currentFile, vault, origin, nodeInput, hoverTimers>>

\* a click on the element of a rendered node: MindmapCanvas.selectNode
SelectNode(n) ==
    /\ n \in renderedNodes
    /\ selectedNodeId' = <<heap[n].id>>
    /\ lastOp' = op("select", TRUE, n, 0)
    /\ UNCHANGED <<heap, mindmapData, history, historyIndex, isDragging, dragOverNode,
                   dragOverTimeout, now, content, output, reparsed, pc, undone, saveVars, otherVars>>

\* selectedNode.children.push(newNode); the new object is the last of the heap
pushNewNode(h, selectedNode, time) ==
    [Append(h, newNodeLiteral(h, selectedNode, time))
        EXCEPT ![selectedNode].children = Append(@, Len(h) + 1)]

\* the snapshot saveToHistory has stored comes from the file of the live tree
snapshotOrigin(s) == origin @@ (s.history[Len(s.history)] :> origin[mindmapData])

\* MindmapView.addChildToSelectedNode (Tab key); elapsed is the number of
\* milliseconds since the clock was last read
AddChildToSelectedNode(elapsed) ==
    /\ notDue(now + elapsed)
    /\ \E selectedNode \in {getSelectedNode} :
           IF selectedNode = 0 \/ mindmapData = 0
           THEN /\ lastOp' = op("addChild", FALSE, 0, 0)
                /\ UNCHANGED <<heap, mindmapData, history, historyIndex, selectedNodeId,
                               isDragging, dragOverNode, dragOverTimeout, now, content,
                               output, reparsed, pc, undone, saveVars, otherVars>>
           ELSE \E s \in {saveToHistory(heap, mindmapData, history, historyIndex)} :
                    /\ heap' = calculateNodePositions(
                                   pushNewNode(s.heap, selectedNode, Epoch + now + elapsed),
                                   mindmapData)
                    /\ history' = s.history
                    /\ historyIndex' = s.historyIndex
                    /\ selectedNodeId' = <<nodeId(Epoch + now + elapsed)>>
                    /\ now' = now + elapsed
                    /\ lastOp' = op("addChild", TRUE, selectedNode, Len(s.heap) + 1)
                    /\ AutoSave(now + elapsed)
                    /\ origin' = snapshotOrigin(s)
                    /\ UNCHANGED <<mindmapData, isDragging, dragOverNode, dragOverTimeout,
                                   content, output, reparsed, pc, undone, envVars,
                                   nodeInput, hoverTimers>>

\* MindmapView.addNode (toolbar button)
AddNode(elapsed) ==
    /\ notDue(now + elapsed)
    /\ \E selectedNode \in {getSelectedNode} :
           IF mindmapData = 0 \/ selectedNode = 0
           THEN /\ lastOp' = op("addNode", FALSE, 0, 0)
                /\ UNCHANGED <<heap, mindmapData, history, historyIndex, selectedNodeId,
                               isDragging, dragOverNode, dragOverTimeout, now, content,
                               output, reparsed, pc, undone, saveVars, otherVars>>
           ELSE /\ heap' = calculateNodePositions(
                               pushNewNode(heap, selectedNode, Epoch + now + elapsed),
                               mindmapData)
                /\ selectedNodeId' = NoId
                /\ now' = now + elapsed
                /\ lastOp' = op("addNode", TRUE, selectedNode, Len(heap) + 1)
                /\ UNCHANGED <<mindmapData, history, historyIndex, isDragging, dragOverNode,
                               dragOverTimeout, content, output, reparsed, pc, undone, saveVars, otherVars>>

\* parentNode.children.splice(index, 1) when selectedNode is found there
spliceChild(h, parentNode, index) ==
    IF index > 0 THEN [h EXCEPT ![parentNode].children = removeAt(@, index)] ELSE h

\* the selection deleteSelectedNode leaves: the parent, or the center node
\* when the parent is the root
selectionAfterDelete(h, root, parentNode) ==
    IF h[parentNode].id # RootId THEN <<h[parentNode].id>>
    ELSE IF findCenterNode(h, root) # 0 THEN <<h[findCenterNode(h, root)].id>>
    ELSE NoId

\* MindmapView.deleteSelectedNode
DeleteSelectedNode ==
    \E selectedNode \in {getSelectedNode} :
        IF mindmapData = 0 \/ selectedNode = 0
        THEN /\ lastOp' = op("delete", FALSE, selectedNode, 0)
             /\ UNCHANGED <<heap, mindmapData, history, historyIndex, selectedNodeId,
                            isDragging, dragOverNode, dragOverTimeout, now, content,
                            output, reparsed, pc, undone, saveVars, otherVars>>
        ELSE IF heap[selectedNode].parent = 0
        THEN /\ lastOp' = op("delete", FALSE, selectedNode, 0)
             /\ UNCHANGED <<heap, mindmapData, history, historyIndex, selectedNodeId,
                            isDragging, dragOverNode, dragOverTimeout, now, content,
                            output, reparsed, pc, undone, saveVars, otherVars>>
        ELSE \E s \in {saveToHistory(heap, mindmapData, history, historyIndex)},
                parentNode \in {heap[selectedNode].parent} :
             \E h2 \in {calculateNodePositions(
                            spliceChild(s.heap, parentNode,
                                indexOfRef(s.heap[parentNode].children, selectedNode, 1)),
                            mindmapData)} :
                 /\ heap' = h2
                 /\ history' = s.history
                 /\ historyIndex' = s.historyIndex
                 /\ selectedNodeId' = selectionAfterDelete(h2, mindmapData, parentNode)
                 /\ lastOp' = op("delete", TRUE, selectedNode, parentNode)
                 /\ AutoSave(now)
                 /\ origin' = snapshotOrigin(s)
                 /\ UNCHANGED <<mindmapData, isDragging, dragOverNode, dragOverTimeout,
                                now, content, output, reparsed, pc, undone, envVars,
                                nodeInput, hoverTimers>>

\* the texts typed into the input of startEditing
TypedTexts == {<<"x">>, <<" ">>}

\* finishEditing of MindmapCanvas.startEditing on a rendered node, with
\* MindmapView.onNodeEdit
NodeEdit(n, typed) ==
    /\ n \in renderedNodes
    /\ notDue(now)
    /\ heap' = [heap EXCEPT ![n].text =
                    IF trim(typed) = <<>> THEN Placeholder ELSE trim(typed)]
    /\ lastOp' = op("edit", TRUE, n, 0)
    /\ AutoSave(now)
    /\ UNCHANGED <<mindmapData, history, historyIndex, selectedNodeId, isDragging,
                   dragOverNode, dragOverTimeout, now, content, output, reparsed, pc,
                   undone, otherVars>>

\* MindmapView.saveToFile: the result of generateMarkdown that is written
saveToFile(h, root, file) ==
    IF root = 0 THEN file ELSE generateMarkdown(h, root)

\* saveToFile goes past its first test: there is a file and a tree
saved == currentFile # NoFile /\ mindmapData # 0

\* the vault after saveToFile
vaultAfterSave(files, file, h, root) ==
    IF file = NoFile \/ root = 0 THEN files
    ELSE modify(files, file, generateMarkdown(h, root))

\* a timer of autoSaveDebounced fires when it is due: later() of debounce
SaveTimerFire ==
    \E t \in {u \in saveTimers : \A v \in saveTimers : u.due <= v.due} :
        /\ now' = max2(now, t.due)
        /\ saveTimers' = clearTimeout(saveTimers \ {t}, timeout)
        /\ saves' = saves + 1
        /\ output' = saveToFile(heap, mindmapData, output)
        /\ vault' = vaultAfterSave(vault, currentFile, heap, mindmapData)
        /\ lastOp' = op("save", saved, 0, 0)
        /\ UNCHANGED <<heap, mindmapData, history, historyIndex, selectedNodeId,
                       isDragging, dragOverNode, dragOverTimeout, content, reparsed,
                       pc, undone, timeout, currentFile, reading, origin, nodeInput,
                       hoverTimers>>

\* the save button of the toolbar
SaveButton ==
    /\ output' = saveToFile(heap, mindmapData, output)
    /\ vault' = vaultAfterSave(vault, currentFile, heap, mindmapData)
    /\ lastOp' = op("save", saved, 0, 0)
    /\ UNCHANGED <<heap, mindmapData, history, historyIndex, selectedNodeId, isDragging,
                   dragOverNode, dragOverTimeout, now, content, reparsed, pc, undone,
                   saveVars, currentFile, reading, origin, nodeInput, hoverTimers>>

\* an undo that steps the index back before it looks whether a state is left
UndoDecrementFirst ==
    /\ historyIndex' = historyIndex - 1
    /\ lastOp' = op("undo", FALSE, 0, 0)
    /\ UNCHANGED <<heap, mindmapData, history, selectedNodeId, isDragging,
                   dragOverNode, dragOverTimeout, now, content, output, reparsed, pc,
                   undone, saveVars, otherVars>>

\* MindmapView.undo
Undo ==
    IF historyIndex > 0
    THEN \E previousState \in {history[(historyIndex - 1) + 1]} :
             /\ historyIndex' = historyIndex - 1
             /\ heap' = calculateNodePositions(
                            restoreNodeReferences(heap, previousState), previousState)
             /\ mindmapData' = previousState
             /\ selectedNodeId' = NoId
             /\ lastOp' = op("undo", TRUE, previousState, 0)
             /\ undone' = undone + 1
             /\ UNCHANGED <<history, isDragging, dragOverNode, dragOverTimeout, now,
                            content, output, reparsed, pc, saveVars, otherVars>>
    ELSE /\ lastOp' = op("undo", FALSE, 0, 0)
         /\ UNCHANGED <<heap, mindmapData, history, historyIndex, selectedNodeId,
                        isDragging, dragOverNode, dragOverTimeout, now, content,
                        output, reparsed, pc, undone, saveVars, otherVars>>

\* MindmapView.recalculateAndRender: the heap after the layout (renderMindmap
\* clears the selection)
recalculateAndRender(h, root) ==
    IF root # 0 THEN calculateNodePositions(h, root) ELSE h

\* MindmapCanvas.toggleNodeCollapse, from the toggle button of a rendered node
ToggleNodeCollapse(n) ==
    /\ n \in renderedNodes
    /\ IF Len(heap[n].children) = 0
       THEN /\ lastOp' = op("toggle", FALSE, n, 0)
            /\ UNCHANGED <<heap, selectedNodeId>>
       ELSE /\ heap' = recalculateAndRender(
                          [heap EXCEPT ![n].collapsed =
                              IF truthy(@) THEN "false" ELSE "true"],
                          mindmapData)
            /\ selectedNodeId' = NoId
            /\ lastOp' = op("toggle", TRUE, n, 0)
    /\ UNCHANGED <<mindmapData, history, historyIndex, isDragging, dragOverNode,
                   dragOverTimeout, now, content, output, reparsed, pc, undone, saveVars, otherVars>>

\* the color items of the context menu of showNodeContextMenu
Palette == {"default", "red", "blue", "green", "orange", "purple"}

\* a click on a color item of the context menu of a rendered node
Recolor(n, color) ==
    /\ n \in renderedNodes
    /\ heap' = recalculateAndRender([heap EXCEPT ![n].color = color], mindmapData)
    /\ selectedNodeId' = NoId
    /\ lastOp' = op("recolor", TRUE, n, 0)
    /\ UNCHANGED <<mindmapData, history, historyIndex, isDragging, dragOverNode,
                   dragOverTimeout, now, content, output, reparsed, pc, undone, saveVars, otherVars>>

\* mousedown on the element of a rendered node, the pointer on the node's
\* position (dragOffset 0, 0)
MouseDownNode(n) ==
    /\ n \in renderedNodes
    /\ selectedNodeId' = <<heap[n].id>>
    /\ isDragging' = TRUE
    /\ lastOp' = op("mousedown", TRUE, n, 0)
    /\ UNCHANGED <<heap, mindmapData, history, historyIndex, dragOverNode,
                   dragOverTimeout, now, content, output, reparsed, pc, undone, saveVars, otherVars>>

\* a place of the canvas where no node was laid out
OffCanvas == <<-1000, -1000>>

\* the pointer positions tried: on a node of the live tree, or off every node
MousePoints ==
    IF mindmapData = 0 THEN {OffCanvas}
    ELSE {heap[n].pos : n \in {m \in Range(getAllNodes(heap, mindmapData)) :
                                  heap[m].pos # NoPos}}
         \cup {OffCanvas}

\* the timer a handle stands for
timerOf(handle) == [child |-> handle.child, target |-> handle.target]

\* MindmapCanvas.clearDragOverTimeout: the timers left pending
clearDragOverTimeout(timers, handle) ==
    IF handle = <<>> THEN timers ELSE timers \ {timerOf(handle[1])}

\* setTimeout(() => this.moveNodeToParent(draggedNode, overlappingNode), 2000)
hoverTimer(draggedNode, overlappingNode) ==
    [child |-> draggedNode, target |-> overlappingNode]

\* a checkNodeOverlap that starts the timer of a new target without clearing
\* the timer of the target before
checkNodeOverlapKeepsTimer(timers, handle, over, draggedNode, overlappingNode) ==
    IF overlappingNode # 0 /\ overlappingNode # over
    THEN [hoverTimers |-> timers \cup {hoverTimer(draggedNode, overlappingNode)},
          dragOverNode |-> overlappingNode,
          dragOverTimeout |-> <<[child |-> draggedNode, target |-> overlappingNode,
                                 pending |-> TRUE]>>]
    ELSE IF overlappingNode = 0
    THEN [hoverTimers |-> clearDragOverTimeout(timers, handle),
          dragOverNode |-> 0, dragOverTimeout |-> <<>>]
    ELSE [hoverTimers |-> timers, dragOverNode |-> over, dragOverTimeout |-> handle]

\* MindmapCanvas.checkNodeOverlap: [hoverTimers, dragOverNode, dragOverTimeout]
checkNodeOverlap(timers, handle, over, draggedNode, overlappingNode) ==
    IF overlappingNode # 0 /\ overlappingNode # over
    THEN [hoverTimers |-> clearDragOverTimeout(timers, handle)
                              \cup {hoverTimer(draggedNode, overlappingNode)},
          dragOverNode |-> overlappingNode,
          dragOverTimeout |-> <<[child |-> draggedNode, target |-> overlappingNode,
                                 pending |-> TRUE]>>]
    ELSE IF overlappingNode = 0
    THEN [hoverTimers |-> clearDragOverTimeout(timers, handle),
          dragOverNode |-> 0, dragOverTimeout |-> <<>>]
    ELSE [hoverTimers |-> timers, dragOverNode |-> over, dragOverTimeout |-> handle]

\* the canvas mousemove handler while a node is dragged
MouseMove(pt) ==
    /\ isDragging /\ selectedNodeId # NoId /\ mindmapData # 0
    /\ \E node \in {findNodeById(heap, mindmapData, selectedNodeId[1])} :
           /\ node # 0
           /\ \E h1 \in {[heap EXCEPT ![node].pos = pt]} :
              \E overlappingNode \in
                     {findNodeAtPosition(h1, mindmapData, pt[1], pt[2], node)} :
              \E c \in {checkNodeOverlap(hoverTimers, dragOverTimeout, dragOverNode,
                                         node, overlappingNode)} :
                  /\ heap' = h1
                  /\ hoverTimers' = c.hoverTimers
                  /\ dragOverNode' = c.dragOverNode
                  /\ dragOverTimeout' = c.dragOverTimeout
                  /\ lastOp' = op("mousemove", TRUE, node, overlappingNode)
    /\ UNCHANGED <<mindmapData, history, historyIndex, selectedNodeId, isDragging, now,
                   content, output, reparsed, pc, undone, saveVars, envVars, origin,
                   nodeInput>>

\* the canvas mouseup handler
MouseUp ==
    /\ isDragging' = FALSE
    /\ hoverTimers' = clearDragOverTimeout(hoverTimers, dragOverTimeout)
    /\ dragOverTimeout' = <<>>
    /\ dragOverNode' = 0
    /\ lastOp' = op("mouseup", TRUE, 0, 0)
    /\ UNCHANGED <<heap, mindmapData, history, historyIndex, selectedNodeId, now,
                   content, output, reparsed, pc, undone, saveVars, envVars, origin,
                   nodeInput>>

\* a re-parenting that leaves the node in the children of its old parent
reparentWithoutSplice(h, childNode, oldParent, newParent) ==
    [[h EXCEPT ![childNode].parent = newParent]
        EXCEPT ![newParent].children = Append(@, childNode)]

\* the splice, the parent assignment and the push of moveNodeToParent
reparent(h, childNode, oldParent, newParent) ==
    [[spliceChild(h, oldParent,
                  IF oldParent = 0 THEN 0
                  ELSE indexOfRef(h[oldParent].children, childNode, 1))
         EXCEPT ![childNode].parent = newParent]
         EXCEPT ![newParent].children = Append(@, childNode)]

\* MindmapCanvas.moveNodeToParent: [ok, heap]
moveNodeToParent(h, root, childNode, newParent) ==
    IF root = 0 \/ childNode = newParent \/ isAncestor(h, childNode, newParent)
    THEN [ok |-> FALSE, heap |-> h]
    ELSE [ok |-> TRUE,
          heap |-> recalculateAndRender(
                       reparent(h, childNode, h[childNode].parent, newParent), root)]

\* the 2-second timer of checkNodeOverlap fires
HoverTimerFire ==
    /\ \E t \in hoverTimers :
       \E m \in {moveNodeToParent(heap, mindmapData, t.child, t.target)} :
           /\ heap' = m.heap
           /\ selectedNodeId' = IF m.ok THEN NoId ELSE selectedNodeId
           /\ hoverTimers' = hoverTimers \ {t}
           /\ dragOverTimeout' =
                  IF dragOverTimeout # <<>> /\ timerOf(dragOverTimeout[1]) = t
                  THEN <<[dragOverTimeout[1] EXCEPT !.pending = FALSE]>>
                  ELSE dragOverTimeout
           /\ lastOp' = op("move", m.ok, t.child, t.target)
    /\ UNCHANGED <<mindmapData, history, historyIndex, isDragging, dragOverNode, now,
                   content, output, reparsed, pc, undone, saveVars, envVars, origin,
                   nodeInput>>

-----------------------------------------------------------------------------
(* The editor: a file is loaded and edited through the view and the canvas *)

MaxSteps == 5                    \* handlers run in one behaviour of Spec

H1 == <<"#", " ", "a">>
H2b == <<"#", "#", " ", "b">>
H2c == <<"#", "#", " ", "c">>
H1d == <<"#", " ", "d">>
L1b == <<"-", " ", "b">>
L2c == <<"\t", "-", " ", "c">>
H6f == <<"#", "#", "#", "#", "#", "#", " ", "f">>

\* the contents of the file that is loaded
EditDocs ==
    { join(<<H1, H2b, H2c>>),    \* a center node with two main branches
      join(<<H1, L1b, L2c>>),    \* a chain: header, bullet, nested bullet
      join(<<H1, H1d>>),         \* two children of the root
      H6f,                       \* a header at the deepest header level
      <<>> }                     \* an empty file: the default structure

\* the colors tried by Recolor
EditColors == {"blue", "default"}

Init ==
    /\ heap = <<>>
    /\ mindmapData = 0
    /\ history = <<>>
    /\ historyIndex = -1
    /\ selectedNodeId = NoId
    /\ isDragging = FALSE
    /\ dragOverNode = 0
    /\ dragOverTimeout = <<>>
    /\ now = 0
    /\ content = <<>>
    /\ output = [threw |-> FALSE, text |-> <<>>]
    /\ reparsed = 0
    /\ pc = "edit"
    /\ lastOp = op("init", TRUE, 0, 0)
    /\ steps = 0
    /\ undone = 0
    /\ saveTimers = {}
    /\ timeout = 0
    /\ saves = 0
    /\ currentFile = NoFile
    /\ vault = [f \in Files |-> <<>>]
    /\ reading = {}
    /\ origin = <<>>
    /\ nodeInput = <<>>
    /\ hoverTimers = {}

Budget == steps < MaxSteps
Count == steps' = steps + 1

Next ==
    \/ \E text \in EditDocs : Budget /\ LoadFile(text) /\ Count
    \/ \E n \in 1..Len(heap) : Budget /\ SelectNode(n) /\ Count
    \/ \E elapsed \in 0..1 : Budget /\ AddChildToSelectedNode(elapsed) /\ Count
    \/ \E elapsed \in 0..1 : Budget /\ AddNode(elapsed) /\ Count
    \/ Budget /\ DeleteSelectedNode /\ Count
    \/ Budget /\ Undo /\ Count
    \/ \E n \in 1..Len(heap) : Budget /\ ToggleNodeCollapse(n) /\ Count
    \/ \E n \in 1..Len(heap), color \in EditColors : Budget /\ Recolor(n, color) /\ Count
    \/ \E n \in 1..Len(heap) : Budget /\ MouseDownNode(n) /\ Count
    \/ \E pt \in MousePoints : Budget /\ MouseMove(pt) /\ Count
    \/ Budget /\ MouseUp /\ Count
    \/ Budget /\ HoverTimerFire /\ Count

Spec == Init /\ [][Next]_vars

-----------------------------------------------------------------------------
(* The pipeline of a file: loadFile parses it and lays it out, saveToFile  *)
(* serializes the tree, and the next load parses what was written          *)

MaxLines == 3                    \* lines of a document built from DocLines

H3e == <<"#", "#", "#", " ", "e">>
LW == <<"-", " ", "[", "[", "w", "]", "]">>
HW == <<"#", "#", " ", "[", "[", "w", "|", "x", "]", "]">>
H7 == <<"#", "#", "#", "#", "#", "#", "#", " ", "g">>
LS == <<" ", " ", "-", " ", "s", " ">>
Para == <<"p">>
Blank == <<" ">>

\* the lines documents are built from: headers, bullets at several indents,
\* wikilinks, and lines the parser skips
DocLines == {H1, H2b, H3e, L1b, L2c, LW, HW, H7, LS, Para, Blank}

\* a center node with three main branches, the first with two children
Wide == join(<<H1, H2b, H3e, H3e, H2c, H2c>>)

\* two children of the root, each with a child
TwoTops == join(<<H1, H2b, H1d, H2c>>)

\* a bullet list that returns to a shallower indent, and a line ending "\r\n"
Dedent == join(<<H1 \o <<"\r">>, L1b, L2c, L2c, L1b>>)

\* headers with a bullet and a nested bullet between them
FiveLines ==
    join(<< <<"#", " ", "A">>, <<"#", "#", " ", "B">>, <<"-", " ", "C">>,
            <<"\t", "-", " ", "D">>, <<"#", "#", " ", "E">> >>)

RECURSIVE linesUpTo(_)
linesUpTo(n) ==
    IF n = 0 THEN {<<>>}
    ELSE linesUpTo(n - 1)
         \cup {Append(d, l) : d \in {e \in linesUpTo(n - 1) : Len(e) = n - 1},
                              l \in DocLines}

\* the documents parsed
Docs == {join(d) : d \in linesUpTo(MaxLines)} \cup {Wide, TwoTops, Dedent, FiveLines}

InitParse ==
    /\ content \in Docs
    /\ heap = <<>>
    /\ mindmapData = 0
    /\ history = <<>>
    /\ historyIndex = -1
    /\ selectedNodeId = NoId
    /\ isDragging = FALSE
    /\ dragOverNode = 0
    /\ dragOverTimeout = <<>>
    /\ now = 0
    /\ output = [threw |-> FALSE, text |-> <<>>]
    /\ reparsed = 0
    /\ pc = "parse"
    /\ lastOp = op("init", TRUE, 0, 0)
    /\ steps = 0
    /\ undone = 0
    /\ saveTimers = {}
    /\ timeout = 0
    /\ saves = 0
    /\ currentFile = NoFile
    /\ vault = [f \in Files |-> <<>>]
    /\ reading = {}
    /\ origin = <<>>
    /\ nodeInput = <<>>
    /\ hoverTimers = {}

\* this.mindmapData = this.parser.parseMarkdown(content)
Parse ==
    /\ pc = "parse"
    /\ \E p \in {parseMarkdown(heap, content)} :
           /\ heap' = p.heap
           /\ mindmapData' = p.root
    /\ pc' = "layout"
    /\ UNCHANGED <<history, historyIndex, selectedNodeId, isDragging, dragOverNode,
                   dragOverTimeout, now, content, output, reparsed, lastOp, steps,
                   undone, saveVars, otherVars>>

\* this.parser.calculateNodePositions(this.mindmapData)
Layout ==
    /\ pc = "layout"
    /\ heap' = calculateNodePositions(heap, mindmapData)
    /\ pc' = "generate"
    /\ UNCHANGED <<mindmapData, history, historyIndex, selectedNodeId, isDragging,
                   dragOverNode, dragOverTimeout, now, content, output, reparsed,
                   lastOp, steps, undone, saveVars, otherVars>>

\* saveToFile: generateMarkdown(this.mindmapData); a TypeError ends it
Generate ==
    /\ pc = "generate"
    /\ \E g \in {generateMarkdown(heap, mindmapData)} :
           /\ output' = g
           /\ pc' = IF g.threw THEN "threw" ELSE "reparse"
    /\ UNCHANGED <<heap, mindmapData, history, historyIndex, selectedNodeId,
                   isDragging, dragOverNode, dragOverTimeout, now, content, reparsed,
                   lastOp, steps, undone, saveVars, otherVars>>

\* the written text is parsed again
Reparse ==
    /\ pc = "reparse"
    /\ \E p \in {parseMarkdown(heap, output.text)} :
           /\ heap' = p.heap
           /\ reparsed' = p.root
    /\ pc' = "done"
    /\ UNCHANGED <<mindmapData, history, historyIndex, selectedNodeId, isDragging,
                   dragOverNode, dragOverTimeout, now, content, output, lastOp, steps,
                   undone, saveVars, otherVars>>

NextParse == Parse \/ Layout \/ Generate \/ Reparse

SpecParse == InitParse /\ [][NextParse]_vars

-----------------------------------------------------------------------------
(* Undo after a run of snapshot-taking edits: a file is loaded, children   *)
(* are added with Tab and deleted again, then Ctrl+Z is pressed until it   *)
(* reports that nothing is left                                            *)

MaxMutations == 26               \* edits before the first undo, at most

\* the edits made so far (the load is the first step)
mutations == steps - 1

editing == mindmapData # 0 /\ lastOp.op # "undo" /\ mutations < MaxMutations

NextUndo ==
    \/ \E text \in EditDocs : LoadFile(text) /\ Count
    \/ editing /\ lastOp.op # "addChild" /\ AddChildToSelectedNode(1) /\ Count
    \/ editing /\ lastOp.op = "addChild" /\ DeleteSelectedNode /\ Count
    \/ mindmapData # 0 /\ (lastOp.op = "undo" => lastOp.ok) /\ Undo
          /\ UNCHANGED steps

SpecUndo == Init /\ [][NextUndo]_vars

-----------------------------------------------------------------------------
(* Edits made within one millisecond: Date.now() returns the same value    *)
(* for every node added, in a file that is a chain of three nodes          *)

MaxTickSteps == 8                \* handlers run in one behaviour of SpecSameTick

Tick == steps < MaxTickSteps

NextSameTick ==
    \/ Tick /\ LoadFile(join(<<H1, L1b, L2c>>)) /\ Count
    \/ \E n \in 1..Len(heap) : Tick /\ SelectNode(n) /\ Count
    \/ Tick /\ AddChildToSelectedNode(0) /\ Count
    \/ Tick /\ DeleteSelectedNode /\ Count
    \/ \E n \in 1..Len(heap) : Tick /\ MouseDownNode(n) /\ Count
    \/ \E pt \in MousePoints : Tick /\ MouseMove(pt) /\ Count
    \/ Tick /\ HoverTimerFire /\ Count

SpecSameTick == Init /\ [][NextSameTick]_vars

-----------------------------------------------------------------------------
(* Auto-save: edits of a loaded file, apart by less or more than the wait  *)
(* of the debounce, and the save timer                                     *)

MaxSaveSteps == 6                \* handlers and timers run in one behaviour of SpecSave

Saving == steps < MaxSaveSteps

\* milliseconds between an edit and the next: none, just under the wait, the wait
Gaps == {0, SaveWait - 1, SaveWait}

NextSave ==
    \/ Saving /\ LoadFile(join(<<H1, H2b>>)) /\ Count
    \/ \E n \in 1..Len(heap) : Saving /\ SelectNode(n) /\ Count
    \/ \E elapsed \in Gaps : Saving /\ AddChildToSelectedNode(elapsed) /\ Count
    \/ Saving /\ DeleteSelectedNode /\ Count
    \/ \E n \in 1..Len(heap), typed \in TypedTexts :
           Saving /\ NodeEdit(n, typed) /\ Count
    \/ Saving /\ SaveTimerFire /\ Count

SpecSave == Init /\ [][NextSave]_vars

-----------------------------------------------------------------------------
(* Files with lines the parser skips between the lines it keeps            *)

MaxSkipLines == 3                \* lines of a document built from SkipLines

HashOnly == <<"#", "a">>
DashOnly == <<"-", "b">>
HashBare == <<"#", "#">>
DashWide == <<"-", " ", " ">>
Indented == <<" ", "#", "#", " ", "b", " ">>

\* headers and bullets, and lines that are neither
SkipLines == {H1, Indented, L1b, L2c, DashWide, H7, HashOnly, DashOnly, HashBare,
              Para, Blank, <<>>}

RECURSIVE skipLinesUpTo(_)
skipLinesUpTo(n) ==
    IF n = 0 THEN {<<>>}
    ELSE skipLinesUpTo(n - 1)
         \cup {Append(d, l) : d \in {e \in skipLinesUpTo(n - 1) : Len(e) = n - 1},
                              l \in SkipLines}

\* the documents parsed: a skipped line where a pop of the stack precedes or
\* follows it is among them
SkipDocs ==
    {join(d) : d \in skipLinesUpTo(MaxSkipLines)}
        \cup {join(<<H1, H2b, H7, H2c>>), join(<<H1, L1b, L2c, DashOnly, L2c, L1b>>),
              join(<<H1, H2b, Para, H1d, Blank, H2c>>)}

InitSkip ==
    /\ content \in SkipDocs
    /\ heap = <<>>
    /\ mindmapData = 0
    /\ history = <<>>
    /\ historyIndex = -1
    /\ selectedNodeId = NoId
    /\ isDragging = FALSE
    /\ dragOverNode = 0
    /\ dragOverTimeout = <<>>
    /\ now = 0
    /\ output = [threw |-> FALSE, text |-> <<>>]
    /\ reparsed = 0
    /\ pc = "parse"
    /\ lastOp = op("init", TRUE, 0, 0)
    /\ steps = 0
    /\ undone = 0
    /\ saveTimers = {}
    /\ timeout = 0
    /\ saves = 0
    /\ currentFile = NoFile
    /\ vault = [f \in Files |-> <<>>]
    /\ reading = {}
    /\ origin = <<>>
    /\ nodeInput = <<>>
    /\ hoverTimers = {}

SpecSkip == InitSkip /\ [][NextParse]_vars

-----------------------------------------------------------------------------
(* Several files opened in one view: loadFile awaits the read of the file, *)
(* edits and saves run before and after the read returns or fails          *)

MaxFileSteps == 7                \* handlers and callbacks run in one behaviour of SpecFiles

Filing == steps < MaxFileSteps

\* the vault: an outline, a blank file, and a file without any outline line
FileTexts ==
    [file \in Files |->
        IF file = "f" THEN join(<<H1, H2b>>) ELSE IF file = "g" THEN Blank ELSE Para]

InitFiles ==
    /\ heap = <<>>
    /\ mindmapData = 0
    /\ history = <<>>
    /\ historyIndex = -1
    /\ selectedNodeId = NoId
    /\ isDragging = FALSE
    /\ dragOverNode = 0
    /\ dragOverTimeout = <<>>
    /\ now = 0
    /\ content = <<>>
    /\ output = [threw |-> FALSE, text |-> <<>>]
    /\ reparsed = 0
    /\ pc = "edit"
    /\ lastOp = op("init", TRUE, 0, 0)
    /\ steps = 0
    /\ undone = 0
    /\ saveTimers = {}
    /\ timeout = 0
    /\ saves = 0
    /\ currentFile = NoFile
    /\ vault = FileTexts
    /\ reading = {}
    /\ origin = <<>>
    /\ nodeInput = <<>>
    /\ hoverTimers = {}

NextFiles ==
    \/ \E file \in Files : Filing /\ OpenFile(file) /\ Count
    \/ \E file \in Files : Filing /\ ReadDone(file) /\ Count
    \/ \E file \in Files : Filing /\ ReadFailed(file) /\ Count
    \/ Filing /\ AddChildToSelectedNode(1) /\ Count
    \/ Filing /\ Undo /\ Count
    \/ Filing /\ SaveTimerFire /\ Count
    \/ Filing /\ SaveButton /\ Count

SpecFiles == InitFiles /\ [][NextFiles]_vars

-----------------------------------------------------------------------------
(* The history cursor: children are added with Tab and deleted again, and  *)
(* Ctrl+Z is pressed now and then, after which the center node is selected *)
(* and the edits go on                                                     *)

MaxEdits == 23                   \* load and edits of one behaviour of SpecHistory
MaxUndos == 3                    \* undos that replace the live tree, at most

mayEdit == mindmapData # 0 /\ selectedNodeId # NoId /\ steps < MaxEdits

NextHistory ==
    \/ LoadFile(H1) /\ Count
    \/ mayEdit /\ lastOp.op # "addChild" /\ AddChildToSelectedNode(1) /\ Count
    \/ mayEdit /\ lastOp.op = "addChild" /\ DeleteSelectedNode /\ Count
    \/ mindmapData # 0 /\ undone < MaxUndos /\ (lastOp.op = "undo" => lastOp.ok)
          /\ Undo /\ UNCHANGED steps
    \/ mindmapData # 0 /\ selectedNodeId = NoId
          /\ SelectNode(findCenterNode(heap, mindmapData)) /\ UNCHANGED steps

SpecHistory == Init /\ [][NextHistory]_vars

-----------------------------------------------------------------------------
(* Properties                                                              *)

\* the tree under ref as a value: text, type and (when withLevel) level of
\* each node, and the trees of its children in order
RECURSIVE treeOf(_, _, _)
treeOf(h, ref, withLevel) ==
    [text |-> h[ref].text, type |-> h[ref].type,
     level |-> IF withLevel THEN h[ref].level ELSE 0,
     children |-> [i \in 1..Len(h[ref].children) |->
                      treeOf(h, h[ref].children[i], withLevel)]]

\* the objects reached from frontier through children lists (cycles allowed)
RECURSIVE reach(_, _, _)
reach(h, frontier, seen) ==
    IF frontier = {} THEN seen
    ELSE reach(h,
               UNION {Range(h[n].children) : n \in frontier} \ (seen \cup frontier),
               seen \cup frontier)

\* the nodes of the subtree of ref, ref included
subtree(h, ref) == reach(h, {ref}, {})

\* the nodes of the live tree
liveNodes == IF mindmapData = 0 THEN {} ELSE subtree(heap, mindmapData)

\* the tree parseMarkdown builds from the text generateMarkdown writes for the
\* live tree equals the live tree in shape, order, type and text
roundTrips(h, root) ==
    LET g == generateMarkdown(h, root)
        p == parseMarkdown(<<>>, g.text)
    IN  /\ ~g.threw
        /\ treeOf(p.heap, p.root, FALSE) = treeOf(h, root, FALSE)

\* C1: every tree built from a loaded document by add-child, delete and drag
\* re-parent (no undo) is serialized to a text that parses back to a tree of
\* the same shape, child order, types and texts
C1_RoundTripAfterEdits ==
    (mindmapData # 0 /\ undone = 0) => roundTrips(heap, mindmapData)

\* C2: once 25 snapshot-taking edits were made from an empty history, the undo
\* that reports nothing left comes after exactly 20 successful undos
C2_TwentyUndos ==
    (mutations = 25 /\ lastOp.op = "undo" /\ ~lastOp.ok) => undone = 20

\* the siblings under parentNode, which the layout places at depth level, keep
\* their reserved heights apart, and so do the siblings below them; only
\* siblings stacked in the same column are compared (the main branches left
\* and right of the center share their y)
RECURSIVE apart(_, _, _)
apart(h, parentNode, level) ==
    LET children == h[parentNode].children
        height(n) == calculateSubtreeHeight(h, n, level)
    IN  /\ \A i, j \in 1..Len(children) :
               (i < j /\ h[children[i]].pos # NoPos /\ h[children[j]].pos # NoPos
                      /\ h[children[i]].pos[1] = h[children[j]].pos[1])
               => 2 * h[children[i]].pos[2] + height(children[i])
                      <= 2 * h[children[j]].pos[2] - height(children[j])
        /\ \A i \in 1..Len(children) : apart(h, children[i], level + 1)

laidOut == pc \in {"generate", "threw", "reparse", "done"}

\* C3: after the layout, for siblings A before B stacked in the same column,
\* at every depth below the center node (its own children included),
\* y(A) + subtreeHeight(A)/2 <= y(B) - subtreeHeight(B)/2
C3_SiblingsApart ==
    (laidOut /\ findCenterNode(heap, mindmapData) # 0)
    => apart(heap, findCenterNode(heap, mindmapData), 0)

\* the children list and the parent reference of every object
structure(h) == [i \in 1..Len(h) |-> <<h[i].children, h[i].parent>>]

\* C4: moveNodeToParent(child, target) with target the child itself or one of
\* its descendants is rejected and leaves every children list and every
\* parent reference as it was: for every such pair of the live tree, and in
\* every run of the hover timer with such a pair
C4_DescendantMoveRejected ==
    [][ /\ \A child \in liveNodes \ {mindmapData} :
               \A target \in subtree(heap, child) :
                   moveNodeToParent(heap, mindmapData, child, target)
                       = [ok |-> FALSE, heap |-> heap]
        /\ (/\ steps' = steps + 1
            /\ lastOp'.op = "move"
            /\ lastOp'.target \in subtree(heap, lastOp'.node))
           => (~lastOp'.ok /\ structure(heap') = structure(heap)) ]_vars

\* the hover timer ran for a node dragged over one of its descendants
C4_Witness ==
    /\ lastOp.op = "move" /\ ~lastOp.ok
    /\ lastOp.target \in subtree(heap, lastOp.node) \ {lastOp.node}
    /\ lastOp.node \in liveNodes

\* the places (owner, index) of node n in the children lists of nodes
owners(h, nodes, n) ==
    UNION {{<<q, i>> : i \in {j \in 1..Len(h[q].children) : h[q].children[j] = n}} :
              q \in nodes}

\* the root is reached from n by following at most fuel parent references
RECURSIVE climbs(_, _, _, _)
climbs(h, root, n, fuel) ==
    IF n = root THEN TRUE
    ELSE IF fuel = 0 \/ h[n].parent = 0 THEN FALSE
    ELSE climbs(h, root, h[n].parent, fuel - 1)

wellFormed(h, root) ==
    LET nodes == subtree(h, root)
    IN  /\ h[root].id = RootId
        /\ h[root].parent = 0
        /\ owners(h, nodes, root) = {}
        /\ \A n \in nodes \ {root} :
               /\ h[n].id # RootId
               /\ Cardinality(owners(h, nodes, n)) = 1
               /\ \A o \in owners(h, nodes, n) : h[n].parent = o[1]
               /\ climbs(h, root, n, Cardinality(nodes))

\* C5: the live tree has one root (id 'root', no parent), has no cycle, and
\* every other node of it is in exactly one children list, once, with its
\* parent reference naming the owner of that list
C5_LiveTreeWellFormed == mindmapData # 0 => wellFormed(heap, mindmapData)

\* a node of a tree of at least four nodes was re-parented by a drag
C5_Witness ==
    /\ lastOp.op = "move" /\ lastOp.ok
    /\ lastOp.node \in liveNodes
    /\ heap[lastOp.node].parent = lastOp.target
    /\ Cardinality(liveNodes) >= 4

\* the nodes of the first parsed tree, in the order of their lines
parsedNodes == 2..(IF reparsed = 0 THEN Len(heap) ELSE reparsed - 1)

\* the earlier parsed nodes of a level smaller than that of n
shallower(h, n) == {m \in 2..(n - 1) : h[m].level < h[n].level}

\* the last of them, or the root when there is none
nearestShallower(h, root, n) ==
    IF shallower(h, n) = {} THEN root
    ELSE CHOOSE m \in shallower(h, n) : \A k \in shallower(h, n) : k <= m

\* C6: the parent of every parsed node is the most recent earlier parsed node
\* of a strictly smaller level, the root when there is none, and the level
\* of a node is greater than the level of its parent
C6_ParentIsNearestShallower ==
    pc # "parse" =>
        \A n \in parsedNodes :
            /\ heap[n].parent = nearestShallower(heap, mindmapData, n)
            /\ heap[n].level > heap[heap[n].parent].level
            /\ n \in Range(heap[heap[n].parent].children)

\* a bullet at a shallower indent than the bullet before it hangs under an
\* ancestor that is neither the line before it nor the root, and a bullet
\* before any header hangs under the root
C6_Witness ==
    /\ pc = "layout"
    /\ \E n \in parsedNodes :
           /\ heap[n].type = "list" /\ heap[n - 1].type = "list"
           /\ heap[n].level < heap[n - 1].level
           /\ heap[n].parent \notin {n - 1, mindmapData}
           /\ heap[n].parent = nearestShallower(heap, mindmapData, n)

\* the line of the written text that holds node as its text is stored
storedLine(node) ==
    IF node.type = "header"
    THEN [i \in 1..node.level |-> "#"] \o <<" ">> \o node.text
    ELSE [i \in 1..max2(0, node.level - 7) |-> "\t"] \o <<"-", " ">> \o node.text

written == pc \in {"threw", "reparse", "done"}

\* C7: for every node parsed with hasWikilink true and wikilinks not empty,
\* generateMarkdown completes and writes the node's line with its text as
\* stored
C7_WikilinkTextVerbatim ==
    written =>
        \A n \in liveNodes :
            (heap[n].hasWikilink /\ heap[n].wikilinks # <<>>)
            => /\ ~output.threw
               /\ storedLine(heap[n]) \in Range(split(output.text))

succeeded(names) == steps' = steps + 1 /\ lastOp'.op \in names /\ lastOp'.ok

\* C8: every successful delete, add-child (Tab key or toolbar button) and
\* drag re-parent leaves as the newest entry of the history a new copy of the
\* tree as it was before the operation
C8_SnapshotBeforeEdit ==
    [][ succeeded({"delete", "addChild", "addNode", "move"})
        => /\ history' # <<>>
           /\ historyIndex' = Len(history') - 1
           /\ history'[Len(history')] > Len(heap)
           /\ treeOf(heap', history'[Len(history')], TRUE)
                  = treeOf(heap, mindmapData, TRUE) ]_vars

\* C9: the text generateMarkdown writes for a parsed tree parses to a tree of
\* the same shape, child order, types, levels and texts
C9_ParsedTreeRoundTrips ==
    pc \in {"threw", "done"} =>
        /\ pc = "done"
        /\ treeOf(heap, reparsed, TRUE) = treeOf(heap, mindmapData, TRUE)

\* C10: after calculateNodePositions every node but the root has a position
C10_EveryNodePositioned ==
    laidOut => \A n \in liveNodes \ {mindmapData} : heap[n].pos # NoPos

\* the tree, the history list and the history index are what they were
modelUnchanged ==
    /\ heap' = heap
    /\ mindmapData' = mindmapData
    /\ history' = history
    /\ historyIndex' = historyIndex

rejected(names) == steps' = steps + 1 /\ lastOp'.op \in names /\ ~lastOp'.ok

\* C11: a rejected add-child (Tab key or toolbar button), a rejected delete
\* and an undo with no earlier snapshot leave the tree, the history list and
\* the history index exactly as they were
C11_RejectedIsNoOp ==
    [][ rejected({"addChild", "addNode", "delete", "undo"}) => modelUnchanged ]_vars

\* an undo was refused although a snapshot is stored, after an edit
C11_Witness ==
    /\ lastOp.op = "undo" /\ ~lastOp.ok
    /\ mindmapData # 0 /\ Len(history) = 1 /\ historyIndex = 0

\* the fields of a node other than its position and its links
payload(node) ==
    [id |-> node.id, text |-> node.text, level |-> node.level, type |-> node.type,
     color |-> node.color, collapsed |-> node.collapsed,
     hasWikilink |-> node.hasWikilink, wikilinks |-> node.wikilinks]

\* the sequence s without the elements of the set gone
without(s, gone) ==
    LET keep(x) == x \notin gone
    IN  SelectSeq(s, keep)

\* C12: a successful delete takes the selected node and its descendants, and
\* nothing else, out of the all-nodes traversal; the other nodes keep their
\* data and their children in order; and the node selected afterwards is the
\* former parent, or root's first child (none when the root has no child
\* left) when the former parent was the root
C12_DeleteRemovesSubtree ==
    [][ succeeded({"delete"}) =>
          LET node == lastOp'.node
              parentNode == lastOp'.target
              gone == subtree(heap, node)
          IN  /\ node = getSelectedNode
              /\ getAllNodes(heap', mindmapData)
                     = without(getAllNodes(heap, mindmapData), gone)
              /\ \A m \in subtree(heap', mindmapData) :
                     /\ payload(heap'[m]) = payload(heap[m])
                     /\ heap'[m].parent = heap[m].parent
                     /\ heap'[m].children = without(heap[m].children, {node})
              /\ getSelectedNode' =
                     IF heap[parentNode].id # RootId THEN parentNode
                     ELSE findCenterNode(heap', mindmapData) ]_vars

\* C13: a successful add-child (Tab key or toolbar button) on the selected
\* node P appends one new childless node as the last child of P, with parent
\* P, level P.level + 1, and type 'header' when P is a header of level < 6,
\* 'list' otherwise; no other node changes its data, parent or children
C13_AddChildAppendsOne ==
    [][ succeeded({"addChild", "addNode"}) =>
          LET P == lastOp'.node
              new == lastOp'.target
          IN  /\ P = getSelectedNode
              /\ new > Len(heap)
              /\ heap'[P].children = Append(heap[P].children, new)
              /\ heap'[new].children = <<>>
              /\ heap'[new].parent = P
              /\ heap'[new].level = heap[P].level + 1
              /\ heap'[new].type =
                     IF heap[P].type = "header" /\ heap[P].level < 6
                     THEN "header" ELSE "list"
              /\ subtree(heap', mindmapData) = subtree(heap, mindmapData) \cup {new}
              /\ \A m \in subtree(heap, mindmapData) :
                     /\ payload(heap'[m]) = payload(heap[m])
                     /\ heap'[m].parent = heap[m].parent
                     /\ m # P => heap'[m].children = heap[m].children ]_vars

\* a child was added to a header of level 6, and one to a list item
C13_Witness ==
    /\ lastOp.op \in {"addChild", "addNode"} /\ lastOp.ok
    /\ heap[lastOp.node].type = "header" /\ heap[lastOp.node].level = 6
    /\ heap[lastOp.target].type = "list" /\ heap[lastOp.target].level = 7
    /\ \E m \in liveNodes : heap[m].type = "list" /\ heap[m].level = 8

\* C14: a recolor changes the color of the node it is applied to and nothing
\* else: the position of every node, a dragged one included, and the
\* children lists and parent references are what they were
C14_RecolorKeepsLayout ==
    [][ succeeded({"recolor"}) =>
          /\ structure(heap') = structure(heap)
          /\ \A m \in 1..Len(heap) :
                 /\ heap'[m].pos = heap[m].pos
                 /\ m # lastOp'.node => heap'[m].color = heap[m].color ]_vars

\* the heap with the collapsed flag of every object set to flag
withFlags(h, flag) == [i \in 1..Len(h) |-> [h[i] EXCEPT !.collapsed = flag]]

\* the text g written for the tree has one line for every node but the root
lineForEachNode(h, root, g) ==
    ~g.threw => Len(split(g.text)) = max2(1, Cardinality(subtree(h, root) \ {root}))

\* the tree is written as the tree with every node collapsed is, one line for
\* every node
flagsIgnored(h, root) ==
    LET g == generateMarkdown(h, root)
    IN  /\ generateMarkdown(withFlags(h, "true"), root) = g
        /\ lineForEachNode(h, root, g)

\* C15: the text generateMarkdown writes for the live tree is the same
\* whatever the collapsed flags are and has a line for every node, the
\* descendants of collapsed nodes included; a toggle does nothing to a node
\* without children and otherwise flips the flag of that node only, leaving
\* the children lists and the written text as they were
C15_CollapseNotSerialized ==
    [][ /\ mindmapData' # 0 => flagsIgnored(heap', mindmapData')
        /\ rejected({"toggle"}) =>
              /\ heap[lastOp'.node].children = <<>>
              /\ modelUnchanged
        /\ succeeded({"toggle"}) =>
              /\ heap[lastOp'.node].children # <<>>
              /\ truthy(heap'[lastOp'.node].collapsed)
                     = ~truthy(heap[lastOp'.node].collapsed)
              /\ structure(heap') = structure(heap)
              /\ \A m \in 1..Len(heap) :
                     /\ [payload(heap'[m]) EXCEPT !.collapsed = "undefined"]
                            = [payload(heap[m]) EXCEPT !.collapsed = "undefined"]
                     /\ m # lastOp'.node => heap'[m].collapsed = heap[m].collapsed
              /\ generateMarkdown(heap', mindmapData)
                     = generateMarkdown(heap, mindmapData) ]_vars

\* a node with children was collapsed
C15_Witness ==
    /\ lastOp.op = "toggle" /\ lastOp.ok
    /\ truthy(heap[lastOp.node].collapsed)
    /\ heap[lastOp.node].children # <<>>
    /\ lastOp.node \in liveNodes


\* the steps of the handlers that call autoSaveDebounced
autoSaving == steps' = steps + 1 /\ lastOp'.ok /\ lastOp'.op \in {"edit", "delete", "addChild"}

\* C16: with auto-save on, at most one save timer is pending; every
\* auto-saving edit (text commit, delete, add-child) cancels the pending timer
\* and starts a new one that is due one second later, without saving; and
\* saveToFile is called only by the timer of the last edit, not before it is
\* due, after which no timer is left: one save for a burst of edits
C16_OneSavePerBurst ==
    [][ /\ Cardinality(saveTimers') <= 1
        /\ autoSaving =>
               /\ saveTimers' = {[id |-> timeout', due |-> now' + SaveWait]}
               /\ timeout' \notin {t.id : t \in saveTimers}
               /\ saves' = saves
        /\ saves' # saves =>
               /\ saves' = saves + 1
               /\ lastOp'.op = "save"
               /\ \E t \in saveTimers : t.id = timeout /\ now' >= t.due
               /\ saveTimers' = {}
        /\ (saveTimers' # saveTimers) => (autoSaving \/ saves' # saves) ]_vars

\* one save after a burst of three edits, each less than a second after the last
C16_Witness ==
    /\ lastOp.op = "save" /\ lastOp.ok
    /\ saves = 1
    /\ timeout = 3
    /\ now = 2 * SaveWait - 1


\* C17: no two nodes of the live tree have the same id, whatever sequence of
\* load (parse or default structure), add-child, delete, re-parent and undo
\* produced the tree
C17_UniqueIds ==
    mindmapData # 0 =>
        \A m, n \in liveNodes : m # n => heap[m].id # heap[n].id


\* a header line: 1 to 6 '#', whitespace, text (blanks around the line aside)
isHeaderLine(line) ==
    LET k == LeadingRun(trim(line), {"#"})
        r == Rest(trim(line), k)
    IN  k \in 1..6 /\ Len(r) >= 2 /\ r[1] \in WhiteSpace

\* a list line: optional indentation, '-', whitespace, text
isListLine(line) ==
    LET r == Rest(line, LeadingRun(line, WhiteSpace))
    IN  Len(r) >= 3 /\ r[1] = "-" /\ r[2] \in WhiteSpace

createsNode(line) == isHeaderLine(line) \/ isListLine(line)

\* the tree parsed from the lines
parsedTree(lines) ==
    LET p == parseMarkdown(<<>>, join(lines)) IN treeOf(p.heap, p.root, TRUE)

\* C18: parseMarkdown returns a tree for every input; every node comes from
\* a header line or a list line; a blank line or any other line gives no
\* node, and the text without that line parses to the same tree (the nodes
\* around it get the same parents); a text with no header or list line
\* parses to a root without children
C18_OtherLinesSkipped ==
    pc = "layout" =>
        LET lines == split(content)
            nodes == liveNodes \ {mindmapData}
        IN  /\ heap[mindmapData].id = RootId
            /\ \A n \in nodes :
                   /\ heap[n].lineNumber + 1 \in 1..Len(lines)
                   /\ createsNode(lines[heap[n].lineNumber + 1])
            /\ \A i \in 1..Len(lines) :
                   ~createsNode(lines[i]) =>
                       /\ \A n \in nodes : heap[n].lineNumber # i - 1
                       /\ parsedTree(removeAt(lines, i))
                              = treeOf(heap, mindmapData, TRUE)
            /\ (\A i \in 1..Len(lines) : ~createsNode(lines[i]))
                   => heap[mindmapData].children = <<>>

\* a line of seven '#' between a bullet and a deeper bullet: the deeper
\* bullet is a child of the first
C18_Witness ==
    /\ pc = "layout"
    /\ content = join(<<L1b, H7, L2c>>)
    /\ Len(heap) = 3
    /\ heap[3].parent = 2


\* the tree of a node with the given text, type, level and children
tree(text, type, level, children) ==
    [text |-> text, type |-> type, level |-> level, children |-> children]

\* root -> [A(1) -> [B(2) -> [C(7) -> [D(8)]], E(2)]]
fiveLinesTree ==
    tree(RootText, "header", 0,
         << tree(<<"A">>, "header", 1,
                 << tree(<<"B">>, "header", 2,
                         << tree(<<"C">>, "list", 7,
                                 << tree(<<"D">>, "list", 8, <<>>) >>) >>),
                    tree(<<"E">>, "header", 2, <<>>) >>) >>)

\* C19: the five lines '# A', '## B', '- C', TAB '- D', '## E' parse to
\* root -> [A(1) -> [B(2) -> [C(7) -> [D(8)]], E(2)]], and generateMarkdown
\* of that tree returns the same five lines joined by newlines
C19_FiveLinesExample ==
    (content = FiveLines /\ pc # "parse") =>
        /\ treeOf(heap, mindmapData, TRUE) = fiveLinesTree
        /\ generateMarkdown(heap, mindmapData) = [threw |-> FALSE, text |-> FiveLines]
        /\ pc \in {"reparse", "done"} => output = [threw |-> FALSE, text |-> FiveLines]

\* the five lines were parsed and written again
C19_Witness ==
    /\ content = FiveLines
    /\ pc = "reparse"
    /\ output.text = FiveLines
    /\ Len(heap[mindmapData].children) = 1


\* the tree below ref with everything a snapshot keeps of a node but its id
RECURSIVE fullTree(_, _)
fullTree(h, ref) ==
    [text |-> h[ref].text, type |-> h[ref].type, level |-> h[ref].level,
     color |-> h[ref].color, collapsed |-> h[ref].collapsed,
     children |-> [i \in 1..Len(h[ref].children) |-> fullTree(h, h[ref].children[i])]]

\* C20: when the last handler was a delete or an add-child that stored a
\* snapshot, one undo succeeds and makes the live tree equal (shape, text,
\* type, level, color, collapsed) to the tree as it was just before that
\* mutation, which is the snapshot the mutation stored last in the history
C20_UndoRevertsLastMutation ==
    [][ (/\ lastOp.op \in {"addChild", "delete"} /\ lastOp.ok
         /\ steps' = steps + 1
         /\ lastOp'.op = "undo")
        => /\ lastOp'.ok
           /\ fullTree(heap', mindmapData') = fullTree(heap, history[Len(history)]) ]_vars


\* the nodes of the snapshots kept in the history
historyNodes(h, hist) == UNION {subtree(h, hist[i]) : i \in 1..Len(hist)}

\* C21: a snapshot stored in the history never changes: whatever is done to
\* the live tree, also after undos, every entry that stays in the history
\* keeps its content, and the live tree shares no node with the history
C21_SnapshotsImmutable ==
    [][ /\ \A i \in 1..Len(history) :
               (i <= Len(history') /\ history'[i] = history[i])
                   => fullTree(heap', history[i]) = fullTree(heap, history[i])
        /\ mindmapData' # 0
               => subtree(heap', mindmapData') \cap historyNodes(heap', history') = {} ]_vars


\* the file the live tree was parsed from or synthesized for
liveOrigin == IF mindmapData \in DOMAIN origin THEN origin[mindmapData] ELSE NoFile

\* C22: every write of saveToFile puts into a file the serialization of a
\* tree that was parsed from, or synthesized for, that same file, also when
\* the save runs while a loadFile awaits its read and after a failed read
C22_SavesTreeOfItsFile ==
    [][ (steps' = steps + 1 /\ lastOp'.op = "save" /\ lastOp'.ok)
        => /\ liveOrigin = currentFile
           /\ \A file \in Files \ {currentFile} : vault'[file] = vault[file] ]_vars


\* C23: when the hover timer fires, the re-parent is applied only if the
\* dragged node and the target are both still nodes of the live tree;
\* otherwise the firing leaves the live tree as it is, and a node that was
\* deleted is never put back into the live tree
C23_StaleHoverTimerIgnored ==
    [][ (steps' = steps + 1 /\ lastOp'.op = "move"
            /\ ~({lastOp'.node, lastOp'.target} \subseteq liveNodes))
        => /\ ~lastOp'.ok
           /\ subtree(heap', mindmapData') = liveNodes
           /\ \A n \in liveNodes : heap'[n].children = heap[n].children ]_vars


\* the heap with the positions of the nodes of gone forgotten
unplaced(h, gone) == [i \in 1..Len(h) |-> IF i \in gone THEN [h[i] EXCEPT !.pos = NoPos] ELSE h[i]]

\* the nodes below the collapsed nodes of the live tree
hidden ==
    UNION {subtree(heap, n) \ {n} : n \in {m \in liveNodes : truthy(heap[m].collapsed)}}

\* C24: in the layout a collapsed node reserves the minimum slot height of
\* its depth, max(100 - 10 * depth, 60), and calculateNodePositions gives no
\* position to a descendant of a collapsed node
C24_CollapsedSubtreeNotPlaced ==
    mindmapData # 0 =>
        /\ \A n \in liveNodes : \A depth \in 0..5 :
               truthy(heap[n].collapsed)
                   => calculateSubtreeHeight(heap, n, depth) = max2(100 - 10 * depth, 60)
        /\ \A d \in hidden :
               calculateNodePositions(unplaced(heap, hidden), mindmapData)[d].pos = NoPos


\* the entries of the history up to the cursor
upToCursor == SubSeq(history, 1, historyIndex + 1)

\* C25: the history holds at most 20 snapshots and the cursor satisfies
\* -1 <= historyIndex < history.length, with -1 only for an empty history;
\* undo never moves the cursor forward; and right after a snapshot is stored
\* the cursor is on the last entry, the entries before it being those that
\* were up to the cursor (less the oldest when the limit is passed)
C25_HistoryCursor ==
    [][ /\ Len(history') <= MaxHistory
        /\ -1 <= historyIndex' /\ historyIndex' < Len(history')
        /\ historyIndex' = -1 => history' = <<>>
        /\ lastOp'.op = "undo" => historyIndex' <= historyIndex
        /\ succeeded({"addChild", "delete"}) =>
               /\ historyIndex' = Len(history') - 1
               /\ SubSeq(history', 1, Len(history') - 1)
                      = IF Len(upToCursor) = MaxHistory THEN Tail(upToCursor)
                        ELSE upToCursor ]_vars

\* a snapshot is stored after an undo with the history at its limit: the
\* oldest entry goes and the cursor stays on the last
C25_Witness ==
    /\ lastOp.op = "addChild" /\ lastOp.ok
    /\ undone = 2
    /\ Len(history) = MaxHistory
    /\ historyIndex = MaxHistory - 1
    /\ steps = MaxEdits


C27_UndoStaysInFile ==
    [][ (steps' = steps + 1 /\ lastOp'.op = "undo" /\ lastOp'.ok
            /\ liveOrigin = currentFile)
        => origin[mindmapData'] = currentFile ]_vars


-----------------------------------------------------------------------------
(* Editing the text of nodes that carry wikilinks                          *)

MaxLinkSteps == 4                \* handlers run in one behaviour of SpecLinks

Linking == steps < MaxLinkSteps

\* the texts typed over a node: a wikilink, a wikilink with an alias, none
LinkTexts == {<<"[", "[", "w", "]", "]">>, <<"[", "[", "v", "|", "x", "]", "]">>,
              <<"x">>}

NextLinks ==
    \/ \E text \in {join(<<H1, HW>>), join(<<H1, LW>>)} :
           Linking /\ LoadFile(text) /\ Count
    \/ \E n \in 1..Len(heap) : Linking /\ SelectNode(n) /\ Count
    \/ Linking /\ AddChildToSelectedNode(1) /\ Count
    \/ \E n \in 1..Len(heap), typed \in LinkTexts :
           Linking /\ NodeEdit(n, typed) /\ Count

SpecLinks == Init /\ [][NextLinks]_vars

\* C28: for every node of the live tree hasWikilink is true exactly when
\* wikilinks is not empty, and wikilinks is the list of the targets of the
\* [[...]] spans of the node's text, after parsing, add-child and a committed
\* text edit
C28_WikilinksMatchText ==
    \A n \in liveNodes :
        /\ heap[n].hasWikilink <=> heap[n].wikilinks # <<>>
        /\ heap[n].wikilinks = wikilinkScan(heap[n].text, 1)


-----------------------------------------------------------------------------
(* The input of startEditing, key by key                                   *)

\* the input element of startEditing over node, holding value
inputOf(node, value) == <<[node |-> node, value |-> value]>>

\* the view shows an input.node-input
isEditing == nodeInput # <<>>

\* const newText = input.value.trim() || placeholder
newText(value) == IF trim(value) = <<>> THEN Placeholder ELSE trim(value)

\* a double click on a rendered node, or i / Enter on the selected one:
\* startEditing appends the input with the node's text and focuses it
StartEditing(n) ==
    /\ n \in renderedNodes
    /\ ~isEditing
    /\ nodeInput' = inputOf(n, heap[n].text)
    /\ lastOp' = op("startEditing", TRUE, n, 0)
    /\ UNCHANGED <<heap, mindmapData, history, historyIndex, selectedNodeId,
                   isDragging, dragOverNode, dragOverTimeout, now, content, output,
                   reparsed, pc, undone, saveVars, envVars, origin, hoverTimers>>

\* the user replaces the value of the input
TypeText(typed) ==
    /\ isEditing
    /\ nodeInput' = inputOf(nodeInput[1].node, typed)
    /\ lastOp' = op("type", TRUE, nodeInput[1].node, 0)
    /\ UNCHANGED <<heap, mindmapData, history, historyIndex, selectedNodeId,
                   isDragging, dragOverNode, dragOverTimeout, now, content, output,
                   reparsed, pc, undone, saveVars, envVars, origin, hoverTimers>>

\* finishEditing runs runs times (the listener that called it, and the blur
\* listener when input.remove() blurs the focused input), reported as key
finishEditing(key, runs) ==
    /\ isEditing
    /\ notDue(now)
    /\ heap' = [heap EXCEPT ![nodeInput[1].node].text = newText(nodeInput[1].value)]
    /\ nodeInput' = <<>>
    /\ lastOp' = op(key, TRUE, nodeInput[1].node, 0)
    /\ \E d1 \in {IF autoSave THEN debounce(saveTimers, timeout, now)
                  ELSE [saveTimers |-> saveTimers, timeout |-> timeout]} :
       \E d2 \in {IF autoSave /\ runs = 2
                  THEN debounce(d1.saveTimers, d1.timeout, now) ELSE d1} :
           /\ saveTimers' = d2.saveTimers
           /\ timeout' = d2.timeout
    /\ UNCHANGED <<mindmapData, history, historyIndex, selectedNodeId, isDragging,
                   dragOverNode, dragOverTimeout, now, content, output, reparsed, pc,
                   undone, saves, envVars, origin, hoverTimers>>

\* the Escape branch when its input.remove() does not blur the input
cancelEditing ==
    /\ isEditing
    /\ nodeInput' = <<>>
    /\ lastOp' = op("escape", TRUE, nodeInput[1].node, 0)
    /\ UNCHANGED <<heap, mindmapData, history, historyIndex, selectedNodeId,
                   isDragging, dragOverNode, dragOverTimeout, now, content, output,
                   reparsed, pc, undone, saveVars, envVars, origin, hoverTimers>>

\* keydown Enter on the input: finishEditing, whose input.remove() may blur
PressEnter(blurOnRemove) == finishEditing("enter", IF blurOnRemove THEN 2 ELSE 1)

\* the input loses the focus: the blur listener
Blur == finishEditing("blur", 1)

\* keydown Escape on the input: input.remove(); removing the focused input
\* blurs it in some engines, and the blur listener is finishEditing
PressEscape(blurOnRemove) ==
    IF blurOnRemove THEN finishEditing("escape", 1)
    ELSE cancelEditing

MaxKeySteps == 6                 \* handlers run in one behaviour of SpecEdit

Keying == steps < MaxKeySteps

NextEdit ==
    \/ Keying /\ LoadFile(join(<<H1, H2b>>)) /\ Count
    \/ \E n \in 1..Len(heap) : Keying /\ StartEditing(n) /\ Count
    \/ \E typed \in TypedTexts \cup {<<>>, <<" ", "y", " ">>} :
           Keying /\ TypeText(typed) /\ Count
    \/ \E blurOnRemove \in BOOLEAN : Keying /\ PressEnter(blurOnRemove) /\ Count
    \/ Keying /\ Blur /\ Count
    \/ \E blurOnRemove \in BOOLEAN : Keying /\ PressEscape(blurOnRemove) /\ Count
    \/ Keying /\ SaveTimerFire /\ Count

SpecEdit == Init /\ [][NextEdit]_vars

\* C29: an edit ends by a commit (Enter or blur), which sets the node's text
\* to the trimmed value of the input, or to the placeholder when that is
\* empty, or by a cancel (Escape), which leaves the text as it was and
\* starts no auto-save; either way the node is no longer being edited
C29_CommitOrCancel ==
    [][ (steps' = steps + 1 /\ lastOp'.op \in {"enter", "blur", "escape"})
        => LET n == lastOp'.node
           IN  /\ ~isEditing'
               /\ lastOp'.op \in {"enter", "blur"}
                    => heap'[n].text = (IF trim(nodeInput[1].value) = <<>>
                                        THEN Placeholder
                                        ELSE trim(nodeInput[1].value))
               /\ lastOp'.op = "escape"
                    => /\ heap'[n].text = heap[n].text
                       /\ saveTimers' = saveTimers ]_vars


\* C30: when the text read from a file yields no parsed node, the tree
\* becomes a root whose one child is a level-1 header with the file's base
\* name as text and the root as parent; the default structure is written to
\* the file when the text is blank, and a file with text but no recognizable
\* line is left as it is
C30_DefaultStructure ==
    [][ (steps' = steps + 1 /\ lastOp'.op = "load" /\ lastOp'.ok)
        => \A file \in reading \ reading' :
             LET text == vault[file]
                 p    == parseMarkdown(heap, text)
                 root == mindmapData'
             IN  Len(p.heap[p.root].children) = 0
                 => /\ heap'[root].parent = 0
                    /\ Len(heap'[root].children) = 1
                    /\ LET center == heap'[root].children[1]
                       IN  /\ heap'[center].level = 1
                           /\ heap'[center].type = "header"
                           /\ heap'[center].text = <<file>>
                           /\ heap'[center].parent = root
                           /\ heap'[center].children = <<>>
                    /\ IF trim(text) = <<>>
                       THEN vault'[file] = <<"#", " ", file>>
                       ELSE vault'[file] = text ]_vars

\* the blank file g was loaded and now holds the default structure; the file
\* h, one paragraph, is loaded as the default structure and still holds it
C30_Witness ==
    /\ lastOp.op = "load" /\ lastOp.ok
    /\ mindmapData # 0
    /\ origin[mindmapData] = "h"
    /\ Len(heap[mindmapData].children) = 1
    /\ heap[heap[mindmapData].children[1]].text = <<"h">>
    /\ vault["h"] = Para
    /\ vault["g"] = <<"#", " ", "g">>

====
